---------------------------- MODULE Spec2Model ----------------------------
(***************************************************************************)
(* FlowTest, ft-analyzer: the statistical model (StatisticalModel) and its *)
(* data types (SMMetric, SMTestOutcome), modelled as state machines.       *)
(*                                                                         *)
(* Numbers that the code holds as floats are exact rationals here (a      *)
(* numerator over a positive denominator, in lowest terms), together with  *)
(* the two IEEE values a numpy division by zero produces (inf, nan).       *)
(* Addresses live in a scaled-down address space: an address text has two  *)
(* groups below Radix, "a.b" for IPv4 and "a:b" for IPv6, and the parsed   *)
(* address has the integer value a * Radix + b.                            *)
(***************************************************************************)
EXTENDS Integers, Sequences, FiniteSets

\* ------------------------------------------------------------------ bounds
\* number of groups values of an address part in the scaled-down address space
Radix == 4
\* longest probe table and longest reference table
MaxRows == 2
\* longest rule list handed to validate
MaxRules == 2
MaxUnits == 2
MaxLoops == 3
\* bits of a float's mantissa (float64 has 53)
Precision == 13
\* calls made on a probe
MaxCalls == 4

\* ------------------------------------------------------------- arithmetic
Abs(x) == IF x < 0 THEN -x ELSE x

RECURSIVE Gcd(_, _)
Gcd(a, b) == IF b = 0 THEN a ELSE Gcd(b, a % b)

\* the rational n/d (d > 0) in lowest terms
Num(n, d) ==
    LET g == Gcd(Abs(n), d)
    IN  [t |-> "num", n |-> n \div g, d |-> d \div g]

Whole(n) == [t |-> "num", n |-> n, d |-> 1]
Inf == [t |-> "inf", n |-> 0, d |-> 0]
NaN == [t |-> "nan", n |-> 0, d |-> 0]

IsNum(x) == x.t = "num"

\* float comparison a <= b: false as soon as one side is nan
FLeq(a, b) ==
    CASE a.t = "nan" \/ b.t = "nan" -> FALSE
      [] a.t = "inf" -> b.t = "inf"
      [] b.t = "inf" -> TRUE
      [] OTHER -> a.n * b.d <= b.n * a.d

\* float division a / b of two finite, non-negative numbers or nan; b # 0
FDiv(a, b) ==
    IF a.t = "nan" \/ b.t = "nan" THEN NaN
    ELSE Num(a.n * b.d, a.d * b.n)

Range(s) == {s[i] : i \in 1..Len(s)}

RECURSIVE SeqSum(_)
SeqSum(s) == IF s = <<>> THEN 0 ELSE Head(s) + SeqSum(Tail(s))

SetMin(S) == CHOOSE x \in S : \A y \in S : x <= y
SetMax(S) == CHOOSE x \in S : \A y \in S : x >= y

SeqsUpTo(S, n) == UNION {[1..k -> S] : k \in 0..n}

\* the elements of pool at the positions in S, in pool order
RECURSIVE PickFrom(_, _, _)
PickFrom(pool, S, i) ==
    IF i > Len(pool) THEN <<>>
    ELSE (IF i \in S THEN <<pool[i]>> ELSE <<>>) \o PickFrom(pool, S, i + 1)

\* the tables of 1..n rows taken from pool, in pool order
Selections(pool, n) ==
    {PickFrom(pool, S, 1) :
        S \in {T \in SUBSET (1..Len(pool)) : Cardinality(T) \in 1..n}}


\* -------------------------------------------------------------- addresses
\* An address as the CSV holds it: a text. fam is 4 for "a.b", 6 for "a:b".
Str(fam, a, b) == [kind |-> "str", txt |-> <<fam, a, b>>, version |-> 0, ip |-> 0]

\* An address object, as ipaddress.ip_address returns it.
Obj(version, ip) == [kind |-> "obj", txt |-> <<>>, version |-> version, ip |-> ip]

\* ipaddress.ip_address: parses a text; an address object converts to itself
ip_address(x) ==
    IF x.kind = "obj" THEN x
    ELSE Obj(x.txt[1], x.txt[2] * Radix + x.txt[3])

\* A subnet text: an address text and a prefix length counted in groups (0..2).
Net(fam, a, b, prefixlen) == [txt |-> <<fam, a, b>>, prefixlen |-> prefixlen]

RECURSIVE Pow(_, _)
Pow(b, e) == IF e = 0 THEN 1 ELSE b * Pow(b, e - 1)

\* ipaddress.ip_network: the network address and the size of its host part
ip_network(s) ==
    [version |-> s.txt[1],
     network_address |-> s.txt[2] * Radix + s.txt[3],
     hostsize |-> Pow(Radix, 2 - s.prefixlen)]

\* "x in subnet" of an address object: same family and same network part
InSubnet(x, subnet) ==
    /\ x.version = subnet.version
    /\ (x.ip \div subnet.hostsize) * subnet.hostsize = subnet.network_address

\* Python's order of two address texts (character by character: the first
\* group, the separator, the second group; '.' sorts before ':')
StrKey(x) == <<x.txt[2], x.txt[1], x.txt[3]>>

RECURSIVE TupleLess(_, _)
TupleLess(a, b) ==
    IF a = <<>> \/ b = <<>> THEN a = <<>> /\ b # <<>>
    ELSE IF Head(a) # Head(b) THEN Head(a) < Head(b)
    ELSE TupleLess(Tail(a), Tail(b))

StrGreater(x, y) == TupleLess(StrKey(y), StrKey(x))

\* ----------------------------------------------------------------- tables
\* A row of a data frame. idx is the row's index label; FLOW_COUNT is 0 while
\* the frame has no such column.
Row(st, et, proto, src, dst, sp, dp, pk, by) ==
    [idx |-> 0, START_TIME |-> st, END_TIME |-> et, PROTOCOL |-> proto,
     SRC_IP |-> src, DST_IP |-> dst, SRC_PORT |-> sp, DST_PORT |-> dp,
     PACKETS |-> pk, BYTES |-> by, FLOW_COUNT |-> 0]

\* pd.read_csv: the rows in file order, labelled 0..n-1
read_csv(rows) == [i \in 1..Len(rows) |-> [rows[i] EXCEPT !.idx = i - 1]]

\* reset_index(drop=True): labels renumbered from zero
reset_index(df) == [i \in 1..Len(df) |-> [df[i] EXCEPT !.idx = i - 1]]

Labels(df) == {df[i].idx : i \in 1..Len(df)}

Column(df, c) == [i \in 1..Len(df) |-> df[i][c]]

\* FLOW_KEY
FlowKey(r) == <<r.SRC_IP, r.DST_IP, r.SRC_PORT, r.DST_PORT, r.PROTOCOL>>

\* ------------------------------------------------------------------ state
VARIABLES
    reference,                      \* the caller's reference: a CSV path or a data frame
    args,                           \* the arguments __init__ was called with, as they were then
    constructed,                    \* "none", "ok", or the error __init__ raised
    _flows,                         \* StatisticalModel._flows
    _ref,                           \* StatisticalModel._ref
    _generator_stats,               \* StatisticalModel._generator_stats
    _flows_ip_addresses_converted,
    _ref_ip_addresses_converted,
    filtered,                       \* what the last _filter_segment call returned
    report,                         \* what the last validate call returned or raised
    metric,                         \* an SMMetric object (sm_data_types)
    outcome,                        \* an SMTestOutcome object
    verdict,                        \* what the last is_passing call returned
    raised,                         \* the value last offered to SMMetric.diff, and the error raised
    replicator,                     \* a FlowReplicator object: its status and normalised config
    replicated,                     \* the last replicate call: its arguments and what it returned
    _process,                       \* Ipfixprobe._process: None or the Daemon started last
    _last_run_stats,                \* Ipfixprobe._last_run_stats
    calls                           \* the start() and stop() calls made on the probe so far

vars == <<reference, args, constructed, _flows, _ref, _generator_stats,
          _flows_ip_addresses_converted, _ref_ip_addresses_converted,
          filtered, report, metric, outcome, verdict, raised,
          replicator, replicated, _process, _last_run_stats, calls>>

model_vars == <<reference, args, constructed, _flows, _ref, _generator_stats,
                _flows_ip_addresses_converted, _ref_ip_addresses_converted,
                filtered, report>>

type_vars == <<metric, outcome, verdict, raised>>

repl_vars == <<replicator, replicated>>

probe_vars == <<_process, _last_run_stats, calls>>

\* ------------------------------------------------------------ input pools
\* the broadcast destination "255.255.255.255" and an "ff02::" destination of
\* the scaled-down address space
Broadcast == Str(4, Radix - 1, Radix - 1)
AllNodes == Str(6, Radix - 1, 1)

HostA == Str(4, 1, 1)
HostB == Str(4, 2, 1)
Host6 == Str(6, 1, 1)

\* flows the probe may export: a flow, its reverse direction, an earlier flow
\* with the first one's key, a broadcast and a multicast flow
FlowPool ==
    << Row(1000, 1000, 17, HostA, Broadcast, 1, 2, 1, 1),
       Row(0, 499, 6, HostA, HostB, 1, 2, 1, 1),
       Row(1000, 1999, 6, HostA, HostB, 1, 2, 2, 3),
       Row(1500, 2499, 6, HostB, HostA, 2, 1, 1, 2),
       Row(1200, 1300, 17, Host6, AllNodes, 1, 2, 1, 2) >>

ProbeTables == Selections(FlowPool, MaxRows)

\* reference flows (times are offsets from the generator's start)
RefPool ==
    << Row(0, 999, 6, HostA, HostB, 1, 2, 2, 3),
       Row(500, 1499, 6, HostB, HostA, 2, 1, 1, 2),
       Row(1000, 1499, 6, HostA, HostB, 1, 2, 1, 1) >>

RefTables == Selections(RefPool, MaxRows)

\* a reference data frame as the replicator hands it over: address objects
AsFrame(rows) ==
    [i \in 1..Len(rows) |->
        [rows[i] EXCEPT !.idx = i - 1,
                        !.SRC_IP = ip_address(@),
                        !.DST_IP = ip_address(@)]]

References ==
    {[kind |-> "path", rows |-> t] : t \in RefTables}
    \cup {[kind |-> "frame", rows |-> AsFrame(t)] : t \in RefTables}

\* GeneratorStats of a run (end_time >= start_time)
StatsPool ==
    { [start_time |-> 0, end_time |-> 2499, packets |-> 3, bytes |-> 5],
      [start_time |-> 1000, end_time |-> 2499, packets |-> 3, bytes |-> 5] }

NoFrame == <<>>
NoStats == [start_time |-> 0, end_time |-> 0, packets |-> 0, bytes |-> 0]
NoArgs == [flows |-> <<>>, reference |-> <<>>, stats |-> NoStats,
           merge |-> FALSE, biflows_ts_correction |-> FALSE]
NotRaised == [called |-> FALSE, value |-> Whole(0), error |-> "none"]
NoFiltered == [status |-> "none"]
NoReport == [status |-> "none", outcomes |-> <<>>, rules |-> <<>>,
             check_complement |-> FALSE]
NoMetric == [key |-> "none", diff |-> Whole(0)]
NoVerdict == [called |-> FALSE, passing |-> FALSE]
NoOutcome == [metric |-> NoMetric, value |-> Whole(0), reference |-> Whole(0),
              diff |-> Whole(0), shared |-> FALSE]

\* no FlowReplicator object yet; no replicate call yet
NoReplicator ==
    [status |-> "none",
     given |-> [keys |-> {}, units |-> <<>>,
                loop |-> [srcip |-> [name |-> <<>>, digits |-> <<>>],
                          dstip |-> [name |-> <<>>, digits |-> <<>>],
                          loopOnly |-> [kind |-> "absent", loops |-> {}]]],
     _ignore_loops |-> {},
     _config |-> [units |-> <<>>,
                  loop |-> [srcip |-> [set |-> FALSE, value |-> 0],
                            dstip |-> [set |-> FALSE, value |-> 0],
                            loop_only |-> {}]]]
NoReplicated ==
    [status |-> "none",
     args |-> [input_file |-> <<>>, loops |-> 0, merge_across_loops |-> FALSE,
               inactive_timeout |-> 0 - 1, speed_multiplier |-> Whole(1)],
     unmerged |-> <<>>, rows |-> <<>>]

\* -------------------------------------------------- StatisticalModel.__init__
\* _filter_multicast: drops broadcast and ff02:: destinations (texts), labels kept
_filter_multicast(flows) ==
    LET no_broadcast == SelectSeq(flows, LAMBDA r : r.DST_IP # Broadcast)
    IN  SelectSeq(no_broadcast,
                  LAMBDA r : ~(r.DST_IP.txt[1] = 6 /\ r.DST_IP.txt[2] = Radix - 1))

\* the order in which groupby sorts flow keys of address texts
KeyFlat(k) == StrKey(k[1]) \o StrKey(k[2]) \o <<k[3], k[4], k[5]>>

RECURSIVE SortKeys(_)
SortKeys(S) ==
    IF S = {} THEN <<>>
    ELSE LET least == CHOOSE k \in S :
                        \A o \in S \ {k} : TupleLess(KeyFlat(k), KeyFlat(o))
         IN  <<least>> \o SortKeys(S \ {least})

\* the merge with END_TIME aggregated like START_TIME ("min")
MergeByKeyEndMin(flows) ==
    LET keys == SortKeys({FlowKey(r) : r \in Range(flows)})
        group(k) == SelectSeq(flows, LAMBDA r : FlowKey(r) = k)
    IN  [i \in 1..Len(keys) |->
            LET g == group(keys[i])
            IN  [idx |-> i - 1,
                 START_TIME |-> SetMin(Range(Column(g, "START_TIME"))),
                 END_TIME |-> SetMin(Range(Column(g, "END_TIME"))),
                 PROTOCOL |-> keys[i][5],
                 SRC_IP |-> keys[i][1], DST_IP |-> keys[i][2],
                 SRC_PORT |-> keys[i][3], DST_PORT |-> keys[i][4],
                 PACKETS |-> SeqSum(Column(g, "PACKETS")),
                 BYTES |-> SeqSum(Column(g, "BYTES")),
                 FLOW_COUNT |-> Len(g)]]

\* groupby(FLOW_KEY).aggregate(AGGREGATE_FLOWS), FLOW_COUNT, reset_index
MergeByKey(flows) ==
    LET keys == SortKeys({FlowKey(r) : r \in Range(flows)})
        group(k) == SelectSeq(flows, LAMBDA r : FlowKey(r) = k)
    IN  [i \in 1..Len(keys) |->
            LET g == group(keys[i])
            IN  [idx |-> i - 1,
                 START_TIME |-> SetMin(Range(Column(g, "START_TIME"))),
                 END_TIME |-> SetMax(Range(Column(g, "END_TIME"))),
                 PROTOCOL |-> keys[i][5],
                 SRC_IP |-> keys[i][1], DST_IP |-> keys[i][2],
                 SRC_PORT |-> keys[i][3], DST_PORT |-> keys[i][4],
                 PACKETS |-> SeqSum(Column(g, "PACKETS")),
                 BYTES |-> SeqSum(Column(g, "BYTES")),
                 FLOW_COUNT |-> Len(g)]]

\* the invariant key with the addresses exchanged and the ports left in place
InvKeyPortsKept(r) ==
    IF StrGreater(r.SRC_IP, r.DST_IP)
    THEN <<r.DST_IP, r.SRC_IP, r.SRC_PORT, r.DST_PORT, r.PROTOCOL>>
    ELSE <<r.SRC_IP, r.DST_IP, r.SRC_PORT, r.DST_PORT, r.PROTOCOL>>

\* DIR_INVARIANT_FLOW_KEY of a merged row
InvKey(r) ==
    IF StrGreater(r.SRC_IP, r.DST_IP)
    THEN <<r.DST_IP, r.SRC_IP, r.DST_PORT, r.SRC_PORT, r.PROTOCOL>>
    ELSE <<r.SRC_IP, r.DST_IP, r.SRC_PORT, r.DST_PORT, r.PROTOCOL>>

\* the biflow timestamp correction
CorrectTimestamps(flows) ==
    [i \in 1..Len(flows) |->
        LET g == SelectSeq(flows, LAMBDA r : InvKey(r) = InvKey(flows[i]))
        IN  [flows[i] EXCEPT
                !.START_TIME = SetMin(Range(Column(g, "START_TIME"))),
                !.END_TIME = SetMax(Range(Column(g, "END_TIME")))]]

\* _merge_flows without its assertion
RefKeysUnchecked(ref) == TRUE

\* the assertion of _merge_flows: the flow key is unique in the reference
RefKeysUnique(ref) == Len(ref) = Cardinality({FlowKey(r) : r \in Range(ref)})

\* _merge_flows past its assertion
_merge_flows(flows, biflows_ts_correction) ==
    IF biflows_ts_correction THEN CorrectTimestamps(MergeByKey(flows))
    ELSE MergeByKey(flows)

\* the data frames __init__ works on, before the merge
ShiftRef(ref, stats) ==
    IF stats.start_time > 0
    THEN [i \in 1..Len(ref) |->
            [ref[i] EXCEPT !.START_TIME = @ + stats.start_time,
                           !.END_TIME = @ + stats.start_time]]
    ELSE ref

LoadFlows(flows_csv, stats) ==
    LET flows == read_csv(flows_csv)
        started == IF stats.start_time > 0
                   THEN SelectSeq(flows, LAMBDA r : r.START_TIME >= stats.start_time)
                   ELSE flows
    IN  _filter_multicast(started)

\* __init__ past the loading: ref is the shifted reference, flows the probe
\* rows kept. A frame is shifted in place: self._ref is the caller's object.
Initialised(ref, flows, stats, merge, biflows_ts_correction) ==
    /\ reference' = IF reference.kind = "frame"
                    THEN [reference EXCEPT !.rows = ref]
                    ELSE reference
    /\ IF merge /\ ~RefKeysUnique(ref)
       THEN /\ constructed' = "AssertionError"
            /\ UNCHANGED <<_flows, _ref, _generator_stats,
                           _flows_ip_addresses_converted,
                           _ref_ip_addresses_converted>>
       ELSE /\ constructed' = "ok"
            /\ _flows' = IF merge THEN _merge_flows(flows, biflows_ts_correction)
                         ELSE flows
            /\ _ref' = ref
            /\ _generator_stats' = stats
            /\ _flows_ip_addresses_converted' = FALSE
            /\ _ref_ip_addresses_converted' = (reference.kind = "frame")

\* StatisticalModel(flows, reference, stats, merge, biflows_ts_correction)
Construct(flows_csv, stats, merge, biflows_ts_correction) ==
    /\ constructed = "none"
    /\ args' = [flows |-> flows_csv, reference |-> reference.rows,
                stats |-> stats, merge |-> merge,
                biflows_ts_correction |-> biflows_ts_correction]
    /\ Initialised(ShiftRef(IF reference.kind = "path"
                            THEN read_csv(reference.rows)
                            ELSE reference.rows, stats),
                   LoadFlows(flows_csv, stats),
                   stats, merge, biflows_ts_correction)
    /\ UNCHANGED <<filtered, report>>
    /\ UNCHANGED type_vars
    /\ UNCHANGED repl_vars
    /\ UNCHANGED probe_vars

\* --------------------------------------------------------------- segments
\* None, for a subnet text and for a datetime
NoNet == [txt |-> <<>>, prefixlen |-> 0]
NoTime == -1

\* SMRule.segment: None, an SMSubnetSegment or an SMTimeSegment. A datetime is
\* its number of microseconds since the epoch.
NoSegment ==
    [type |-> "none", source |-> NoNet, dest |-> NoNet, bidir |-> FALSE,
     start |-> NoTime, end |-> NoTime]
SMSubnetSegment(source, dest, bidir) ==
    [type |-> "subnet", source |-> source, dest |-> dest, bidir |-> bidir,
     start |-> NoTime, end |-> NoTime]
SMTimeSegment(start, end) ==
    [type |-> "time", source |-> NoNet, dest |-> NoNet, bidir |-> FALSE,
     start |-> start, end |-> end]

\* int(dt.timestamp() * 1000): the datetime in whole milliseconds, the
\* fraction cut off
TimestampMs(dt) == dt \div 1000

\* _convert_ip_addresses: the first call turns the address texts into address
\* objects (the reference only when it was read from a CSV file)
_convert_ip_addresses(m) ==
    IF m.fc /\ m.rc THEN m
    ELSE LET conv(df) == [i \in 1..Len(df) |->
                            [df[i] EXCEPT !.SRC_IP = ip_address(@),
                                          !.DST_IP = ip_address(@)]]
         IN  [flows |-> conv(m.flows),
              ref |-> IF m.rc THEN m.ref ELSE conv(m.ref),
              fc |-> TRUE, rc |-> TRUE]

\* the row test with the reverse direction of a one-subnet bidirectional
\* segment forgotten
SubnetMaskOneWay(r, segment) ==
    IF segment.source # NoNet /\ segment.dest # NoNet
    THEN IF segment.bidir
         THEN \/ /\ InSubnet(r.SRC_IP, ip_network(segment.source))
                 /\ InSubnet(r.DST_IP, ip_network(segment.dest))
              \/ /\ InSubnet(r.SRC_IP, ip_network(segment.dest))
                 /\ InSubnet(r.DST_IP, ip_network(segment.source))
         ELSE /\ InSubnet(r.SRC_IP, ip_network(segment.source))
              /\ InSubnet(r.DST_IP, ip_network(segment.dest))
    ELSE IF segment.source # NoNet
    THEN InSubnet(r.SRC_IP, ip_network(segment.source))
    ELSE InSubnet(r.DST_IP, ip_network(segment.dest))

\* the row test of _filter_subnet_segment, the same for both data frames
SubnetMask(r, segment) ==
    IF segment.source # NoNet /\ segment.dest # NoNet
    THEN IF segment.bidir
         THEN \/ /\ InSubnet(r.SRC_IP, ip_network(segment.source))
                 /\ InSubnet(r.DST_IP, ip_network(segment.dest))
              \/ /\ InSubnet(r.SRC_IP, ip_network(segment.dest))
                 /\ InSubnet(r.DST_IP, ip_network(segment.source))
         ELSE /\ InSubnet(r.SRC_IP, ip_network(segment.source))
              /\ InSubnet(r.DST_IP, ip_network(segment.dest))
    ELSE IF segment.source # NoNet
    THEN IF segment.bidir
         THEN \/ InSubnet(r.SRC_IP, ip_network(segment.source))
              \/ InSubnet(r.DST_IP, ip_network(segment.source))
         ELSE InSubnet(r.SRC_IP, ip_network(segment.source))
    ELSE IF segment.bidir
         THEN \/ InSubnet(r.SRC_IP, ip_network(segment.dest))
              \/ InSubnet(r.DST_IP, ip_network(segment.dest))
         ELSE InSubnet(r.DST_IP, ip_network(segment.dest))

\* the row test of _filter_time_segment, the same for both data frames
TimeMask(r, segment) ==
    LET start_time == TimestampMs(segment.start)
        end_time == TimestampMs(segment.end)
    IN  IF segment.start # NoTime /\ segment.end # NoTime
        THEN r.START_TIME >= start_time /\ r.END_TIME <= end_time
        ELSE IF segment.start # NoTime
        THEN r.START_TIME >= start_time
        ELSE r.END_TIME <= end_time

\* what a filter returns: the two subsets and the mask over the probe rows
\* (the labels the mask is keyed by, and those holding True)
Filtered(status, m, flows, ref, labels, selected) ==
    [status |-> status, m |-> m, flows |-> flows, ref |-> ref,
     labels |-> labels, selected |-> selected]

\* _filter_subnet_segment. With neither subnet set the last branch tests
\* "x in None", a TypeError on the first row (the frames are not empty).
_filter_subnet_segment(m, segment) ==
    IF segment.source = NoNet /\ segment.dest = NoNet
    THEN Filtered("TypeError", m, <<>>, <<>>, {}, {})
    ELSE LET mask_flow == SelectSeq(m.flows, LAMBDA r : SubnetMask(r, segment))
             mask_ref == SelectSeq(m.ref, LAMBDA r : SubnetMask(r, segment))
         IN  Filtered("ok", m, reset_index(mask_flow), reset_index(mask_ref),
                      Labels(m.flows), Labels(mask_flow))

\* _filter_time_segment. With neither bound set the last branch tests
\* "x <= None", a TypeError on the first row.
_filter_time_segment(m, segment) ==
    IF segment.start = NoTime /\ segment.end = NoTime
    THEN Filtered("TypeError", m, <<>>, <<>>, {}, {})
    ELSE LET mask_flow == SelectSeq(m.flows, LAMBDA r : TimeMask(r, segment))
             mask_ref == SelectSeq(m.ref, LAMBDA r : TimeMask(r, segment))
         IN  Filtered("ok", m, reset_index(mask_flow), reset_index(mask_ref),
                      Labels(m.flows), Labels(mask_flow))

\* _filter_segment. m holds the two data frames and the two conversion flags.
\* For no segment the mask is pd.Series([True] * n): keyed 0..n-1.
_filter_segment(m, segment) ==
    CASE segment.type = "subnet" ->
            _filter_subnet_segment(_convert_ip_addresses(m), segment)
      [] segment.type = "time" -> _filter_time_segment(m, segment)
      [] OTHER ->
            Filtered("ok", m, m.flows, m.ref,
                     0..(Len(m.flows) - 1), 0..(Len(m.flows) - 1))

\* the model object's frames and flags
Self ==
    [flows |-> _flows, ref |-> _ref,
     fc |-> _flows_ip_addresses_converted, rc |-> _ref_ip_addresses_converted]

\* ------------------------------------------------ StatisticalModel.validate
SMMetricType == {"PACKETS", "BYTES", "FLOWS", "PPS", "MBPS", "DURATION"}

\* an SMMetric that exists: its diff passed the setter
Metric(key, diff) == [key |-> key, diff |-> diff]

SMRule(metrics, segment) == [metrics |-> metrics, segment |-> segment]

ComplementSegment ==
    [type |-> "complement", source |-> NoNet, dest |-> NoNet, bidir |-> FALSE,
     start |-> NoTime, end |-> NoTime]

SMTestOutcome(m, segment, value, ref_value, diff) ==
    [metric |-> m, segment |-> segment, value |-> value,
     reference |-> ref_value, diff |-> diff]

\* the duration without the millisecond added
DurationExclusive(flows) ==
    IF flows = <<>> THEN NaN
    ELSE Num(SetMax(Range(Column(flows, "END_TIME")))
             - SetMin(Range(Column(flows, "START_TIME"))), 1000)

\* (max(END_TIME) - min(START_TIME) + 1) / 1000; nan over no rows
Duration(flows) ==
    IF flows = <<>> THEN NaN
    ELSE Num(SetMax(Range(Column(flows, "END_TIME")))
             - SetMin(Range(Column(flows, "START_TIME"))) + 1, 1000)

\* (stats.end_time - stats.start_time + 1) / 1000
RefDuration(stats) == Num(stats.end_time - stats.start_time + 1, 1000)

\* the value of a metric over the filtered probe rows
MetricValue(key, flows) ==
    CASE key = "FLOWS" -> Whole(Len(flows))
      [] key = "MBPS" ->
            FDiv(FDiv(Whole(SeqSum(Column(flows, "BYTES"))), Duration(flows)),
                 Whole(1000000))
      [] key = "PPS" ->
            FDiv(Whole(SeqSum(Column(flows, "PACKETS"))), Duration(flows))
      [] key = "DURATION" -> Duration(flows)
      [] OTHER -> Whole(SeqSum(Column(flows, key)))

\* the reference of a metric: the filtered reference rows, or the generator's
\* totals for the rates and the duration
MetricReference(key, ref, stats) ==
    CASE key = "FLOWS" -> Whole(Len(ref))
      [] key = "MBPS" ->
            FDiv(FDiv(Whole(stats.bytes), RefDuration(stats)), Whole(1000000))
      [] key = "PPS" -> FDiv(Whole(stats.packets), RefDuration(stats))
      [] key = "DURATION" -> RefDuration(stats)
      [] OTHER -> Whole(SeqSum(Column(ref, key)))

\* np.int64(x) of a finite non-negative number: the fraction cut off
Int64(x) == x.n \div x.d

\* abs(np.int64(value) - np.int64(reference)) / reference; a numpy division
\* by zero gives inf, or nan for 0 / 0, and raises nothing
RelativeDiff(value, ref_value) ==
    LET distance == Abs(Int64(value) - Int64(ref_value))
    IN  IF ref_value.n = 0
        THEN IF distance = 0 THEN NaN ELSE Inf
        ELSE Num(distance * ref_value.d, ref_value.n)

\* one metric of a rule: np.int64 of nan is a ValueError, which ends validate;
\* else the outcome is added and the loop goes on (rest)
EvalMetric(m, segment, value, ref_value, rest) ==
    IF ~IsNum(value) THEN [error |-> "ValueError", outcomes |-> <<>>]
    ELSE [error |-> rest.error,
          outcomes |-> <<SMTestOutcome(m, segment, value, ref_value,
                                       RelativeDiff(value, ref_value))>>
                       \o rest.outcomes]

\* the loop over a rule's metrics: the outcomes added, and the error raised
RECURSIVE EvalMetrics(_, _, _, _, _)
EvalMetrics(metrics, segment, flows, ref, stats) ==
    IF metrics = <<>> THEN [error |-> "none", outcomes |-> <<>>]
    ELSE EvalMetric(Head(metrics), segment,
                    MetricValue(Head(metrics).key, flows),
                    MetricReference(Head(metrics).key, ref, stats),
                    EvalMetrics(Tail(metrics), segment, flows, ref, stats))

\* validate without the duplicate check
DuplicatesIgnored(rule) == FALSE

\* len({m.key for m in rule.metrics}) != len(rule.metrics)
DuplicatedMetrics(rule) ==
    Cardinality({rule.metrics[i].key : i \in 1..Len(rule.metrics)}) # Len(rule.metrics)

\* the state of validate's loop over the rules: the model's frames and flags,
\* the outcomes and masks so far, and the error that ended the loop
Loop(m, error, outcomes, masks) ==
    [m |-> m, error |-> error, outcomes |-> outcomes, masks |-> masks]

\* a rule's outcomes put in the place of the earlier rules' outcomes
RuleEvaluatedAlone(acc, f, e) ==
    Loop(f.m, e.error,
         IF e.error = "none" THEN e.outcomes ELSE acc.outcomes,
         Append(acc.masks, [labels |-> f.labels, selected |-> f.selected]))

\* a rule past the filter (f) and the duplicate check: its metrics (e)
RuleEvaluated(acc, f, e) ==
    Loop(f.m, e.error,
         IF e.error = "none" THEN acc.outcomes \o e.outcomes ELSE acc.outcomes,
         Append(acc.masks, [labels |-> f.labels, selected |-> f.selected]))

\* one rule: the filter (f), the mask kept, the duplicate check, the metrics
RuleFiltered(rule, stats, acc, f) ==
    IF f.status # "ok" THEN Loop(f.m, f.status, acc.outcomes, acc.masks)
    ELSE IF DuplicatedMetrics(rule)
    THEN Loop(f.m, "SMException", acc.outcomes,
              Append(acc.masks, [labels |-> f.labels, selected |-> f.selected]))
    ELSE RuleEvaluated(acc, f,
            EvalMetrics(rule.metrics, rule.segment, f.flows, f.ref, stats))

\* the loop over the rules
RECURSIVE RunRules(_, _, _)
RunRules(rules, stats, acc) ==
    IF rules = <<>> \/ acc.error # "none" THEN acc
    ELSE RunRules(Tail(rules), stats,
            RuleFiltered(Head(rules), stats, acc,
                         _filter_segment(acc.m, Head(rules).segment)))

\* left | right of two masks: aligned on the union of their labels. A label
\* the right mask lacks counts as False; a label the left mask lacks gives
\* nan | x, which ends as False whatever x is.
OrMask(left, right) ==
    [labels |-> left.labels \cup right.labels,
     selected |-> (left.selected \cup right.selected) \cap left.labels]

\* reduce(operator.or_, all_flow_masks), from the left
RECURSIVE OrMasks(_)
OrMasks(masks) ==
    IF Len(masks) <= 1 THEN masks[1]
    ELSE OrMask(OrMasks(SubSeq(masks, 1, Len(masks) - 1)), masks[Len(masks)])

\* the complement check: self._flows[~mask] and the two outcomes. No mask at
\* all is a TypeError of reduce; a row whose label the mask lacks is an
\* IndexingError.
ComplementOutcome(key, rest) ==
    SMTestOutcome(Metric(key, Whole(0)), ComplementSegment,
                  Whole(SeqSum(Column(rest, key))), Whole(0),
                  IF SeqSum(Column(rest, key)) = 0 THEN Whole(0) ELSE Whole(1))

\* self._flows[~any] and the two outcomes
ComplementOf(flows, any) ==
    IF ~(Labels(flows) \subseteq any.labels)
    THEN [error |-> "IndexingError", outcomes |-> <<>>]
    ELSE [error |-> "none",
          outcomes |->
            <<ComplementOutcome("PACKETS",
                    SelectSeq(flows, LAMBDA r : r.idx \notin any.selected)),
              ComplementOutcome("BYTES",
                    SelectSeq(flows, LAMBDA r : r.idx \notin any.selected))>>]

Complement(flows, masks) ==
    IF masks = <<>> THEN [error |-> "TypeError", outcomes |-> <<>>]
    ELSE ComplementOf(flows, OrMasks(masks))

\* what validate returns (the report) or raises, after the loop (run) and the
\* complement check (c)
Returned(run, c) ==
    [m |-> run.m,
     report |-> IF run.error # "none" THEN [status |-> run.error, outcomes |-> <<>>]
                ELSE IF c.error # "none" THEN [status |-> c.error, outcomes |-> <<>>]
                ELSE [status |-> "ok", outcomes |-> run.outcomes \o c.outcomes]]

AfterRules(run, check_complement) ==
    Returned(run,
             IF check_complement /\ run.error = "none"
             THEN Complement(run.m.flows, run.masks)
             ELSE [error |-> "none", outcomes |-> <<>>])

\* validate(rules, check_complement) on the model m
Validation(m, stats, rules, check_complement) ==
    AfterRules(RunRules(rules, stats, Loop(m, "none", <<>>, <<>>)), check_complement)

\* the model after a call that left the frames and flags m
Converted(m) ==
    /\ _flows' = m.flows
    /\ _ref' = m.ref
    /\ _flows_ip_addresses_converted' = m.fc
    /\ _ref_ip_addresses_converted' = m.rc

ValidateReturns(v, rules, check_complement) ==
    /\ report' = [status |-> v.report.status, outcomes |-> v.report.outcomes,
                  rules |-> rules, check_complement |-> check_complement]
    /\ Converted(v.m)

Validate(rules, check_complement) ==
    /\ constructed = "ok"
    /\ report = NoReport
    /\ ValidateReturns(Validation(Self, _generator_stats, rules, check_complement),
                       rules, check_complement)
    /\ UNCHANGED <<reference, args, constructed, _generator_stats, filtered>>
    /\ UNCHANGED type_vars
    /\ UNCHANGED repl_vars
    /\ UNCHANGED probe_vars

\* a call of _filter_segment on the constructed model
FilterReturns(f, segment) ==
    /\ filtered' = [status |-> f.status, segment |-> segment,
                    flows |-> f.flows, ref |-> f.ref,
                    labels |-> f.labels, selected |-> f.selected]
    /\ Converted(f.m)

FilterSegment(segment) ==
    /\ constructed = "ok"
    /\ filtered = NoFiltered
    /\ FilterReturns(_filter_segment(Self, segment), segment)
    /\ UNCHANGED <<reference, args, constructed, _generator_stats, report>>
    /\ UNCHANGED type_vars
    /\ UNCHANGED repl_vars
    /\ UNCHANGED probe_vars

\* The caller is done with what the last call returned. (validate and
\* _filter_segment are called again only after that: a call depends on the
\* model, not on the result of the call before.)
Release ==
    /\ report # NoReport \/ filtered # NoFiltered
    /\ report' = NoReport
    /\ filtered' = NoFiltered
    /\ UNCHANGED <<reference, args, constructed, _flows, _ref, _generator_stats,
                   _flows_ip_addresses_converted, _ref_ip_addresses_converted>>
    /\ UNCHANGED type_vars
    /\ UNCHANGED repl_vars
    /\ UNCHANGED probe_vars

\* ------------------------------------------------- SMMetric, SMTestOutcome
\* the setter with the upper limit left out
DiffAcceptedNoLimit(value) == FLeq(Whole(0), value)

\* the setter of SMMetric.diff: 0 <= value <= 1
DiffAccepted(value) == FLeq(Whole(0), value) /\ FLeq(value, Whole(1))

\* SMMetric(key, value): the dataclass assigns diff through the setter
NewMetric(key, value) ==
    /\ IF DiffAccepted(value)
       THEN /\ metric' = Metric(key, value)
            /\ raised' = [called |-> TRUE, value |-> value, error |-> "none"]
            \* an outcome built earlier keeps its own metric object
            /\ outcome' = [outcome EXCEPT !.shared = FALSE]
       ELSE /\ raised' = [called |-> TRUE, value |-> value, error |-> "ValueError"]
            /\ UNCHANGED <<metric, outcome>>
    /\ UNCHANGED verdict
    /\ UNCHANGED model_vars
    /\ UNCHANGED repl_vars
    /\ UNCHANGED probe_vars

\* metric.diff = value on the existing metric; an outcome built with this
\* metric object sees the new tolerance
SetDiff(value) ==
    /\ metric # NoMetric
    /\ IF DiffAccepted(value)
       THEN /\ metric' = [metric EXCEPT !.diff = value]
            /\ raised' = [called |-> TRUE, value |-> value, error |-> "none"]
            /\ outcome' = IF outcome.shared
                          THEN [outcome EXCEPT !.metric.diff = value]
                          ELSE outcome
            /\ verdict' = IF outcome.shared THEN NoVerdict ELSE verdict
       ELSE /\ raised' = [called |-> TRUE, value |-> value, error |-> "ValueError"]
            /\ UNCHANGED <<metric, outcome, verdict>>
    /\ UNCHANGED model_vars
    /\ UNCHANGED repl_vars
    /\ UNCHANGED probe_vars

\* SMTestOutcome(metric, segment, value, reference, diff) with the metric
NewOutcome(value, ref_value, diff) ==
    /\ metric # NoMetric
    /\ outcome' = [metric |-> metric, value |-> value, reference |-> ref_value,
                   diff |-> diff, shared |-> TRUE]
    /\ verdict' = NoVerdict
    /\ UNCHANGED <<metric, raised>>
    /\ UNCHANGED model_vars
    /\ UNCHANGED repl_vars
    /\ UNCHANGED probe_vars

\* is_passing with a strict comparison
is_passing_strict(o) == FLeq(o.diff, o.metric.diff) /\ o.diff # o.metric.diff

\* SMTestOutcome.is_passing: bool(self.diff <= self.metric.diff)
is_passing(o) == FLeq(o.diff, o.metric.diff)

IsPassing ==
    /\ outcome # NoOutcome
    /\ verdict' = [called |-> TRUE, passing |-> is_passing(outcome)]
    /\ UNCHANGED <<metric, outcome, raised>>
    /\ UNCHANGED model_vars
    /\ UNCHANGED repl_vars
    /\ UNCHANGED probe_vars

\* ------------------------------------------ FlowReplicator: configuration
\* A modifier text of a configuration dictionary: the words its function name
\* is made of, and the runs of decimal digits re.findall(r"\d+", text) finds.
\* "addConstant(5)" is Text(<<"addConstant">>, <<5>>); a text that only begins
\* like it, "addConstantStep(5)", is Text(<<"addConstant", "Step">>, <<5>>).
Text(name, digits) == [name |-> name, digits |-> digits]

\* the key is missing from the dictionary; the text "None"
Absent == Text(<<>>, <<>>)
NoneText == Text(<<"None">>, <<>>)

\* str.startswith on a modifier text
startswith(func, prefix) == func.name # <<>> /\ func.name[1] = prefix

\* IpAddConstant(value), and the None a unit holds when it has no modifier
IpAddConstant(value) == [set |-> TRUE, value |-> value]
NoModifier == [set |-> FALSE, value |-> 0]

\* what a parsing step gives: the error it raised ("none" if it returned) and
\* the value it returned
Parsed(error, value) == [error |-> error, value |-> value]

\* _parse_config_item: None for a missing key or "None"; the first run of
\* digits of a text starting with addConstant or addOffset; an exception else
_parse_config_item(item, src_dict) ==
    LET func == src_dict[item] IN
    IF func = Absent \/ func = NoneText THEN Parsed("none", NoModifier)
    ELSE IF startswith(func, "addConstant") \/ startswith(func, "addOffset")
         THEN IF func.digits = <<>>
              THEN Parsed("IndexError", NoModifier)
              ELSE Parsed("none", IpAddConstant(func.digits[1]))
    ELSE Parsed("FlowReplicatorException", NoModifier)

\* the loopOnly entry of a unit: missing, "All", one integer, or a list
LoopOnly(kind, loops) == [kind |-> kind, loops |-> loops]

\* a unit or loop dictionary of the configuration
UnitDict(srcip, dstip, loopOnly) ==
    [srcip |-> srcip, dstip |-> dstip, loopOnly |-> loopOnly]

\* the set of loops a unit is restricted to (empty: every loop)
loop_only(unit) ==
    IF unit.loopOnly.kind \in {"absent", "All"} THEN {} ELSE unit.loopOnly.loops

ReplicatorUnit(srcip, dstip, loops) ==
    [srcip |-> srcip, dstip |-> dstip, loop_only |-> loops]

\* the loop over config["units"] of _normalize_config, from unit i on: a unit
\* restricted to ignored loops only is skipped before its texts are parsed
RECURSIVE NormalizeUnits(_, _, _, _)
NormalizeUnits(units, i, ignore_loops, done) ==
    IF i > Len(units) THEN Parsed("none", done)
    ELSE IF loop_only(units[i]) # {} /\ loop_only(units[i]) \subseteq ignore_loops
         THEN NormalizeUnits(units, i + 1, ignore_loops, done)
    ELSE IF _parse_config_item("srcip", units[i]).error # "none"
         THEN Parsed(_parse_config_item("srcip", units[i]).error, done)
    ELSE IF _parse_config_item("dstip", units[i]).error # "none"
         THEN Parsed(_parse_config_item("dstip", units[i]).error, done)
    ELSE NormalizeUnits(units, i + 1, ignore_loops,
            Append(done, ReplicatorUnit(_parse_config_item("srcip", units[i]).value,
                                        _parse_config_item("dstip", units[i]).value,
                                        loop_only(units[i]))))

\* ReplicatorConfig(units, loop)
ReplicatorConfig(units, loop) == [units |-> units, loop |-> loop]

\* _normalize_config: only the keys "units" and "loop" are allowed; units
\* first, then the loop object
_normalize_config(config, ignore_loops) ==
    LET units == NormalizeUnits(config.units, 1, ignore_loops, <<>>)
        srcip == _parse_config_item("srcip", config.loop)
        dstip == _parse_config_item("dstip", config.loop)
    IN  IF ~(config.keys \subseteq {"units", "loop"})
        THEN Parsed("FlowReplicatorException", NoReplicator._config)
        ELSE IF units.error # "none" THEN Parsed(units.error, NoReplicator._config)
        ELSE IF srcip.error # "none" THEN Parsed(srcip.error, NoReplicator._config)
        ELSE IF dstip.error # "none" THEN Parsed(dstip.error, NoReplicator._config)
        ELSE Parsed("none", ReplicatorConfig(units.value,
                        ReplicatorUnit(srcip.value, dstip.value, {})))

\* FlowReplicator.__init__(config, ignore_loops): the object exists only if
\* the configuration was normalised
NewFlowReplicator(config, ignore_loops) ==
    /\ replicator.status = "none"
    /\ replicator' =
          [status |-> IF _normalize_config(config, ignore_loops).error = "none"
                      THEN "ok"
                      ELSE _normalize_config(config, ignore_loops).error,
           given |-> config,
           _ignore_loops |-> ignore_loops,
           _config |-> _normalize_config(config, ignore_loops).value]
    /\ replicated' = NoReplicated
    /\ UNCHANGED model_vars
    /\ UNCHANGED type_vars
    /\ UNCHANGED probe_vars

\* ---------------------------------------------- FlowReplicator: addresses
\* the size of an address space (2**32, 2**128) and the weight of the top
\* group of an IPv6 address (2**96) in the scaled-down address space
AddressSpace == Radix * Radix
TopGroup == Radix

\* "while added >= 2**32: added -= 2**32"
RECURSIVE Overflowed(_, _)
Overflowed(added, size) ==
    IF added >= size THEN Overflowed(added - size, size) ELSE added

\* IPv6Address.__lt__ and IPv4Address.__lt__: the integers of the two
\* addresses are compared, their versions are not. (__eq__ is inherited from
\* ipaddress: equal integers and equal versions, the equality of Obj.)
__lt__(self, other) ==
    IF self.ip # other.ip THEN self.ip < other.ip ELSE FALSE

\* the addition with the IPv6 offset added to the low group
AddLowGroup(ip, other) ==
    Obj(ip.version, Overflowed(ip.ip + other, AddressSpace))

\* IPv4Address.__add__ and IPv6Address.__add__ (other is an int)
__add__(ip, other) ==
    IF ip.version = 6
    THEN Obj(6, Overflowed(ip.ip + TopGroup * other, AddressSpace))
    ELSE Obj(4, Overflowed(ip.ip + other, AddressSpace))

\* ---------------------------------------------- FlowReplicator: replicate
\* a row of self._flows: the CSV columns, the address objects, ORIG_INDEX and
\* the helper columns (0 while the frame has no such column)
SourceFlows(input_file) ==
    [i \in 1..Len(input_file) |->
        [idx |-> i - 1,
         START_TIME |-> input_file[i].START_TIME,
         END_TIME |-> input_file[i].END_TIME,
         PROTOCOL |-> input_file[i].PROTOCOL,
         SRC_IP |-> ip_address(input_file[i].SRC_IP),
         DST_IP |-> ip_address(input_file[i].DST_IP),
         SRC_PORT |-> input_file[i].SRC_PORT,
         DST_PORT |-> input_file[i].DST_PORT,
         PACKETS |-> input_file[i].PACKETS,
         BYTES |-> input_file[i].BYTES,
         ORIG_INDEX |-> i - 1,
         _FLOW_LEN |-> 0, _START_OFFSET |-> 0,
         _SRC_IP_OFFSET |-> 0, _DST_IP_OFFSET |-> 0]]

\* the float nearest to (n / d) * 2^e for n >= 0 and d > 0, ties to the even
\* mantissa: [m, e] is m * 2^e with 2^(Precision-1) <= m < 2^Precision
RECURSIVE Float(_, _, _)
Float(n, d, e) ==
    IF n = 0 THEN [m |-> 0, e |-> 0]
    ELSE IF n >= d * Pow(2, Precision) THEN Float(n, 2 * d, e + 1)
    ELSE IF n < d * Pow(2, Precision - 1) THEN Float(2 * n, d, e - 1)
    ELSE LET q == n \div d
             r == n % d
             m == IF 2 * r > d \/ (2 * r = d /\ q % 2 = 1) THEN q + 1 ELSE q
         IN  IF m = Pow(2, Precision)
             THEN [m |-> m \div 2, e |-> e + 1]
             ELSE [m |-> m, e |-> e]

\* int(x * time_multiplier), (column * time_multiplier).astype(np.uint64):
\* the float product of a non-negative integer and a float, truncated
Truncated(x, time_multiplier) ==
    LET product == IF time_multiplier.e >= 0
                   THEN Float(x * time_multiplier.m * Pow(2, time_multiplier.e), 1, 0)
                   ELSE Float(x * time_multiplier.m, Pow(2, 0 - time_multiplier.e), 0)
    IN  IF product.e >= 0
        THEN product.m * Pow(2, product.e)
        ELSE product.m \div Pow(2, 0 - product.e)

\* pd.concat of a list of frames
RECURSIVE Concat(_)
Concat(frames) == IF frames = <<>> THEN <<>> ELSE Head(frames) \o Concat(Tail(frames))

\* _process_replication_unit: a copy of the flows with the unit's offsets added
_process_replication_unit(unit, flows) ==
    [i \in 1..Len(flows) |->
        [flows[i] EXCEPT
            !._SRC_IP_OFFSET = @ + (IF unit.srcip.set THEN unit.srcip.value ELSE 0),
            !._DST_IP_OFFSET = @ + (IF unit.dstip.set THEN unit.dstip.value ELSE 0)]]

\* the key of the merge within one loop
SplitKey(r) ==
    <<r.PROTOCOL, r.SRC_IP, r.DST_IP, r.SRC_PORT, r.DST_PORT,
      r.ORIG_INDEX, r._SRC_IP_OFFSET, r._DST_IP_OFFSET>>

\* the key of the merge within one loop without the row's identity
SplitKeyNoIndex(r) ==
    <<r.PROTOCOL, r.SRC_IP, r.DST_IP, r.SRC_PORT, r.DST_PORT,
      r._SRC_IP_OFFSET, r._DST_IP_OFFSET>>

\* the aggregation with the counters of the group's first row kept
AggregateFirstCounters(group) ==
    [group[1] EXCEPT
        !.START_TIME = SetMin(Range(Column(group, "START_TIME"))),
        !.END_TIME = SetMax(Range(Column(group, "END_TIME"))),
        !._FLOW_LEN = 0,
        !._START_OFFSET = 0]

\* AGGREGATE_SPLIT_FLOWS over one group; the columns that are neither keys nor
\* aggregated are gone
AggregateSplitFlows(group) ==
    [group[1] EXCEPT
        !.START_TIME = SetMin(Range(Column(group, "START_TIME"))),
        !.END_TIME = SetMax(Range(Column(group, "END_TIME"))),
        !.PACKETS = SeqSum(Column(group, "PACKETS")),
        !.BYTES = SeqSum(Column(group, "BYTES")),
        !._FLOW_LEN = 0,
        !._START_OFFSET = 0]

\* groupby(key, sort=False).agg(AGGREGATE_SPLIT_FLOWS).reset_index(): one row
\* per key, in the order in which the keys appear
GroupSplitFlows(df) ==
    LET first == SelectSeq([i \in 1..Len(df) |-> i],
                    LAMBDA i : \A j \in 1..(i - 1) : SplitKey(df[j]) # SplitKey(df[i]))
    IN  [k \in 1..Len(first) |->
            [AggregateSplitFlows(
                SelectSeq(df, LAMBDA r : SplitKey(r) = SplitKey(df[first[k]])))
             EXCEPT !.idx = k - 1]]

\* sort_values(by=["ORIG_INDEX"]), rows of one ORIG_INDEX left in their order
RECURSIVE SortByOrigIndex(_, _)
SortByOrigIndex(df, orig) ==
    IF \A i \in 1..Len(df) : df[i].ORIG_INDEX < orig THEN <<>>
    ELSE SelectSeq(df, LAMBDA r : r.ORIG_INDEX = orig) \o SortByOrigIndex(df, orig + 1)

\* every unit taken as active in every loop
ActiveUnitsAll(units, loop_n) == units

\* the units of the configuration that take part in loop loop_n
ActiveUnits(units, loop_n) ==
    SelectSeq(units, LAMBDA unit : unit.loop_only = {} \/ loop_n \in unit.loop_only)

\* the flows of one loop before the units are applied: timestamps moved to the
\* loop, the loop's offsets multiplied by the loop number
LoopFlows(loop_n, global_start, loop_length, flows, loop) ==
    [i \in 1..Len(flows) |->
        [flows[i] EXCEPT
            !.START_TIME = global_start + loop_n * loop_length + flows[i]._START_OFFSET,
            !.END_TIME = global_start + loop_n * loop_length + flows[i]._START_OFFSET
                         + flows[i]._FLOW_LEN,
            !._SRC_IP_OFFSET = @ + (IF loop.srcip.set THEN loop_n * loop.srcip.value ELSE 0),
            !._DST_IP_OFFSET = @ + (IF loop.dstip.set THEN loop_n * loop.dstip.value ELSE 0)]]

\* the candidates of all units active in the loop, concatenated
UnitFlows(units, flows) ==
    Concat([u \in 1..Len(units) |-> _process_replication_unit(units[u], flows)])

\* _process_single_loop with the candidates merged regardless of the input row
\* (mutant of _process_single_loop)
ProcessLoopNoIndex(loop_n, global_start, loop_length, flows, config) ==
    IF ActiveUnits(config.units, loop_n) = <<>>
    THEN Parsed("ValueError", <<>>)
    ELSE Parsed("none",
            LET df == UnitFlows(ActiveUnits(config.units, loop_n),
                        LoopFlows(loop_n, global_start, loop_length, flows, config.loop))
                first == SelectSeq([i \in 1..Len(df) |-> i],
                            LAMBDA i : \A j \in 1..(i - 1) :
                                SplitKeyNoIndex(df[j]) # SplitKeyNoIndex(df[i]))
            IN  [k \in 1..Len(first) |->
                    [AggregateSplitFlows(SelectSeq(df,
                        LAMBDA r : SplitKeyNoIndex(r) = SplitKeyNoIndex(df[first[k]])))
                     EXCEPT !.idx = k - 1]])

\* _process_single_loop: pd.concat raises ValueError when no unit is active
_process_single_loop(loop_n, global_start, loop_length, flows, config) ==
    IF ActiveUnits(config.units, loop_n) = <<>>
    THEN Parsed("ValueError", <<>>)
    ELSE Parsed("none",
            SortByOrigIndex(
                GroupSplitFlows(
                    UnitFlows(ActiveUnits(config.units, loop_n),
                        LoopFlows(loop_n, global_start, loop_length, flows, config.loop))),
                0))

\* the flows with _FLOW_LEN, _START_OFFSET and zero address offsets
WithHelpers(flows, loop_start, time_multiplier) ==
    [i \in 1..Len(flows) |->
        [flows[i] EXCEPT
            !._FLOW_LEN = Truncated(flows[i].END_TIME - flows[i].START_TIME, time_multiplier),
            !._START_OFFSET = Truncated(flows[i].START_TIME - loop_start, time_multiplier),
            !._SRC_IP_OFFSET = 0,
            !._DST_IP_OFFSET = 0]]

\* the loop "for loop_n in range(loops)" of _replicate from loop_n on, every
\* loop counted, ignored or not (mutant of ReplicateLoops)
ReplicateLoopsAll(loop_n, loops, loop_start, loop_length, flows, self) ==
    LET frames == [n \in 1..(loops - loop_n) |->
                     _process_single_loop(loop_n + n - 1, loop_start, loop_length,
                                          flows, self._config)]
    IN  IF \E n \in 1..Len(frames) : frames[n].error # "none"
        THEN Parsed("ValueError", <<>>)
        ELSE Parsed("none", [n \in 1..Len(frames) |->
                                [loop_n |-> loop_n + n - 1,
                                 flows |-> frames[n].value]])

\* the loop "for loop_n in range(loops)" of _replicate from loop_n on: a list
\* of frames (tmp_dataframes), each with the loop it was made for
RECURSIVE ReplicateLoops(_, _, _, _, _, _)
ReplicateLoops(loop_n, loops, loop_start, loop_length, flows, self) ==
    IF loop_n >= loops THEN Parsed("none", <<>>)
    ELSE IF loop_n \in self._ignore_loops
         THEN ReplicateLoops(loop_n + 1, loops, loop_start, loop_length, flows, self)
    ELSE IF _process_single_loop(loop_n, loop_start, loop_length, flows,
                                 self._config).error # "none"
         THEN Parsed("ValueError", <<>>)
    ELSE IF ReplicateLoops(loop_n + 1, loops, loop_start, loop_length, flows,
                           self).error # "none"
         THEN Parsed("ValueError", <<>>)
    ELSE Parsed("none",
            <<[loop_n |-> loop_n,
               flows |-> _process_single_loop(loop_n, loop_start, loop_length,
                                              flows, self._config).value]>>
            \o ReplicateLoops(loop_n + 1, loops, loop_start, loop_length, flows,
                              self).value)

\* _replicate: tmp_dataframes; pd.concat raises ValueError on an empty list
_replicate(flows, loops, time_multiplier, self) ==
    LET loop_start == SetMin(Range(Column(flows, "START_TIME")))
        loop_end == SetMax(Range(Column(flows, "END_TIME")))
        tmp_dataframes ==
            ReplicateLoops(0, loops, loop_start,
                Truncated(loop_end - loop_start, time_multiplier),
                WithHelpers(flows, loop_start, time_multiplier), self)
    IN  IF tmp_dataframes.error # "none" \/ tmp_dataframes.value = <<>>
        THEN Parsed("ValueError", <<>>)
        ELSE tmp_dataframes

\* pool.binary: the offsets added to the addresses of every row
AddOffsets(result) ==
    [i \in 1..Len(result) |->
        [result[i] EXCEPT !.SRC_IP = __add__(@, result[i]._SRC_IP_OFFSET),
                          !.DST_IP = __add__(@, result[i]._DST_IP_OFFSET)]]

\* ------------------------------------------- FlowReplicator: cross-loop merge
\* FLOW_KEY of the replicator, and the order groupby gives the keys (addresses
\* compare by their integer value; the version settles equal values)
ReplicatorKey(r) == <<r.PROTOCOL, r.SRC_IP, r.DST_IP, r.SRC_PORT, r.DST_PORT>>

ReplicatorKeyFlat(k) ==
    <<k[1], k[2].ip, k[2].version, k[3].ip, k[3].version, k[4], k[5]>>

RECURSIVE SortReplicatorKeys(_)
SortReplicatorKeys(S) ==
    IF S = {} THEN <<>>
    ELSE LET least == CHOOSE k \in S :
                        \A o \in S \ {k} :
                            TupleLess(ReplicatorKeyFlat(k), ReplicatorKeyFlat(o))
         IN  <<least>> \o SortReplicatorKeys(S \ {least})

\* self._inactive_timeout: milliseconds, or None
InactiveTimeout(inactive_timeout) ==
    IF inactive_timeout > 0 - 1
    THEN [set |-> TRUE, value |-> inactive_timeout * 1000]
    ELSE [set |-> FALSE, value |-> 0]

\* "if self._inactive_timeout:": None and 0 are false
Truthy(_inactive_timeout) == _inactive_timeout.set /\ _inactive_timeout.value # 0

\* GAP of row i of a group: the next row's START_TIME minus this END_TIME
\* (a float column: negative for overlapping records)
Gap(group, i) == group[i + 1].START_TIME - group[i].END_TIME

\* AGGR_NO of row i: the number of gaps before it that reach the timeout
RECURSIVE AggrNo(_, _, _)
AggrNo(group, i, _inactive_timeout) ==
    IF i = 1 \/ ~Truthy(_inactive_timeout) THEN 0
    ELSE AggrNo(group, i - 1, _inactive_timeout)
         + (IF Gap(group, i - 1) >= _inactive_timeout.value THEN 1 ELSE 0)

\* _merge_func: a group of one row is returned as it is
_merge_func(group, _inactive_timeout) ==
    IF Len(group) > 1
    THEN [a \in 1..(AggrNo(group, Len(group), _inactive_timeout) + 1) |->
            AggregateSplitFlows(
                SelectSeq(group,
                    LAMBDA r : AggrNo(group, r.idx + 1, _inactive_timeout) = a - 1))]
    ELSE group

\* _merge_across_loop: groupby(FLOW_KEY).apply(_merge_func)
_merge_across_loop(flows, _inactive_timeout) ==
    LET keys == SortReplicatorKeys({ReplicatorKey(r) : r \in Range(flows)})
    IN  Concat([k \in 1..Len(keys) |->
            _merge_func(reset_index(SelectSeq(flows,
                            LAMBDA r : ReplicatorKey(r) = keys[k])),
                        _inactive_timeout)])

\* result.loc[:, CSV_COLUMN_TYPES.keys()]: the helper columns are left out
CsvColumns(result) ==
    [i \in 1..Len(result) |->
        [idx |-> result[i].idx,
         START_TIME |-> result[i].START_TIME, END_TIME |-> result[i].END_TIME,
         PROTOCOL |-> result[i].PROTOCOL,
         SRC_IP |-> result[i].SRC_IP, DST_IP |-> result[i].DST_IP,
         SRC_PORT |-> result[i].SRC_PORT, DST_PORT |-> result[i].DST_PORT,
         PACKETS |-> result[i].PACKETS, BYTES |-> result[i].BYTES]]

\* time_multiplier = 1 / speed_multiplier: the float quotient of 1 and the
\* float of a positive speed written as n/d
TimeMultiplier(speed_multiplier) ==
    LET speed == Float(speed_multiplier.n, speed_multiplier.d, 0)
    IN  IF speed.e >= 0
        THEN Float(1, speed.m * Pow(2, speed.e), 0)
        ELSE Float(Pow(2, 0 - speed.e), speed.m, 0)

\* what replicate returns for the frames of tmp_dataframes
Replicated(tmp_dataframes, merge_across_loops, inactive_timeout) ==
    LET result == AddOffsets(reset_index(
                      Concat([n \in 1..Len(tmp_dataframes) |-> tmp_dataframes[n].flows])))
    IN  CsvColumns(IF merge_across_loops
                   THEN _merge_across_loop(result, InactiveTimeout(inactive_timeout))
                   ELSE result)

\* FlowReplicator.replicate
Replicate(input_file, loops, merge_across_loops, inactive_timeout, speed_multiplier) ==
    /\ replicator.status = "ok"
    /\ replicated.status = "none"
    /\ replicated' =
        LET tmp == _replicate(SourceFlows(input_file), loops,
                              TimeMultiplier(speed_multiplier), replicator)
        IN  [status |-> IF tmp.error = "none" THEN "ok" ELSE tmp.error,
             args |-> [input_file |-> input_file, loops |-> loops,
                       merge_across_loops |-> merge_across_loops,
                       inactive_timeout |-> inactive_timeout,
                       speed_multiplier |-> speed_multiplier],
             unmerged |-> tmp.value,
             rows |-> IF tmp.error = "none"
                      THEN Replicated(tmp.value, merge_across_loops, inactive_timeout)
                      ELSE <<>>]
    /\ UNCHANGED replicator
    /\ UNCHANGED model_vars
    /\ UNCHANGED type_vars
    /\ UNCHANGED probe_vars

\* The caller is done with what replicate returned. (replicate is called
\* again only after that: a call depends on the replicator and its arguments,
\* not on the call before.)
ReleaseReplicated ==
    /\ replicated.status # "none"
    /\ replicated' = NoReplicated
    /\ UNCHANGED replicator
    /\ UNCHANGED model_vars
    /\ UNCHANGED type_vars
    /\ UNCHANGED probe_vars

\* The caller is done with the replicator, or with the error its
\* construction raised.
Dispose ==
    /\ replicator.status # "none"
    /\ replicated.status = "none"
    /\ replicator' = NoReplicator
    /\ UNCHANGED replicated
    /\ UNCHANGED model_vars
    /\ UNCHANGED type_vars
    /\ UNCHANGED probe_vars

\* -------------------------------------------------------------- Ipfixprobe
\* self._process: None, or a Daemon with what is known of its process (exited
\* once it was found not running or was stopped, and then its return code)
None == [daemon |-> FALSE, exited |-> FALSE, returncode |-> 0]
Daemon(exited, returncode) ==
    [daemon |-> TRUE, exited |-> exited, returncode |-> returncode]

\* a call as the caller saw it: how it ended, the return code it found and
\* the probe's fields before it
Call(name, result, returncode) ==
    [name |-> name, result |-> result, returncode |-> returncode,
     before |-> [_process |-> _process, _last_run_stats |-> _last_run_stats]]

\* Ipfixprobe.start. After a second the new process is running or has exited
\* with return_code; Daemon.stop() returns the output or raises
\* ExecutableProcessError, which start does not catch.
start(is_running, return_code, stop_raises) ==
    /\ Len(calls) < MaxCalls
    /\ _last_run_stats' = "None"
    /\ IF is_running
       THEN /\ _process' = Daemon(FALSE, 0)
            /\ calls' = Append(calls, Call("start", "returned", 0))
       ELSE IF stop_raises
       THEN /\ _process' = Daemon(TRUE, return_code)
            /\ calls' = Append(calls, Call("start", "ExecutableProcessError", return_code))
       ELSE /\ _process' = None
            /\ calls' = Append(calls, Call("start", "ProbeException", return_code))
    /\ UNCHANGED model_vars
    /\ UNCHANGED type_vars
    /\ UNCHANGED repl_vars

\* Ipfixprobe.stop. The process ends with return_code unless it had exited
\* before; when Daemon.stop() raises ExecutableProcessError, stdout stays the
\* empty list and "stdout[-1]" of the error path raises IndexError.
stop(return_code, stop_raises) ==
    /\ Len(calls) < MaxCalls
    /\ IF ~_process.daemon
       THEN /\ calls' = Append(calls, Call("stop", "returned", 0))
            /\ UNCHANGED <<_process, _last_run_stats>>
       ELSE LET code == IF _process.exited THEN _process.returncode ELSE return_code
            IN  IF code > 0
                THEN /\ _process' = Daemon(TRUE, code)
                     /\ IF stop_raises
                        THEN /\ calls' = Append(calls, Call("stop", "IndexError", code))
                             /\ UNCHANGED _last_run_stats
                        ELSE /\ _last_run_stats' = "None"
                             /\ calls' = Append(calls, Call("stop", "ProbeException", code))
                ELSE /\ _last_run_stats' = "IpfixprobeStats"
                     /\ _process' = None
                     /\ calls' = Append(calls, Call("stop", "returned", code))
    /\ UNCHANGED model_vars
    /\ UNCHANGED type_vars
    /\ UNCHANGED repl_vars

\* --------------------------------------------------------- specifications
NetA == Net(4, 1, 0, 1)
NetB == Net(4, 2, 0, 1)

\* datetimes: 1000 ms, 1000.5 ms, 1500 ms, 1999 ms, 2499 ms
SubnetSegments ==
    {SMSubnetSegment(s, d, b) :
        s \in {NoNet, NetA, NetB}, d \in {NoNet, NetA, NetB}, b \in BOOLEAN}

TimeSegments ==
    {SMTimeSegment(s, e) :
        s \in {NoTime, 1000000, 1000500, 1500000}, e \in {NoTime, 1999000, 2499000}}

Segments == {NoSegment} \cup SubnetSegments \cup TimeSegments

Half == Num(1, 2)

\* metric lists of the rules handed to validate
CountMetrics == <<Metric("FLOWS", Whole(0)), Metric("PACKETS", Half), Metric("BYTES", Whole(1))>>
\* (DURATION first: over no rows it is the nan that np.int64 refuses)
RateMetrics == <<Metric("DURATION", Whole(1)), Metric("PPS", Whole(0)), Metric("MBPS", Half)>>
DuplMetrics == <<Metric("FLOWS", Whole(0)), Metric("PPS", Whole(0)), Metric("FLOWS", Half)>>

RuleSegments ==
    { NoSegment,
      SMSubnetSegment(NetA, NoNet, FALSE),
      SMTimeSegment(1000000, 1999000) }

Rules ==
    {SMRule(ms, seg) : ms \in {CountMetrics, RateMetrics, DuplMetrics},
                       seg \in RuleSegments}

RuleLists == SeqsUpTo(Rules, MaxRules)

\* tolerances offered to SMMetric, and relative differences of outcomes
Tolerances == {Num(0 - 1, 2), Whole(0), Half, Whole(1), Num(5, 4), Inf, NaN}
Diffs == {Whole(0), Num(1, 4), Half, Whole(1), Whole(3), Inf, NaN}

InitModel ==
    /\ reference \in References
    /\ args = NoArgs
    /\ constructed = "none"
    /\ _flows = NoFrame
    /\ _ref = NoFrame
    /\ _generator_stats = NoStats
    /\ _flows_ip_addresses_converted = FALSE
    /\ _ref_ip_addresses_converted = FALSE
    /\ filtered = NoFiltered
    /\ report = NoReport

InitTypes ==
    /\ metric = NoMetric
    /\ outcome = NoOutcome
    /\ verdict = NoVerdict
    /\ raised = NotRaised
    /\ replicator = NoReplicator
    /\ replicated = NoReplicated
    /\ _process = None
    /\ _last_run_stats = "None"
    /\ calls = <<>>

Init == InitModel /\ InitTypes

\* the probe exported at least one flow that is kept at load time
ConstructUnmerged ==
    \E flows_csv \in ProbeTables, stats \in StatsPool :
        /\ LoadFlows(flows_csv, stats) # <<>>
        /\ Construct(flows_csv, stats, FALSE, FALSE)

ConstructAny ==
    \E flows_csv \in ProbeTables, stats \in StatsPool,
       merge \in BOOLEAN, biflows_ts_correction \in BOOLEAN :
        /\ LoadFlows(flows_csv, stats) # <<>>
        /\ Construct(flows_csv, stats, merge, biflows_ts_correction)

ValidateAny ==
    \E rules \in RuleLists, check_complement \in BOOLEAN :
        Validate(rules, check_complement)

FilterAny == \E segment \in Segments : FilterSegment(segment)

\* validation of a model
Next == ConstructUnmerged \/ ValidateAny \/ Release
Spec == Init /\ [][Next]_vars

\* construction (with and without merge) and segment filtering
NextFilter == ConstructAny \/ FilterAny \/ Release
SpecFilter == Init /\ [][NextFilter]_vars

\* flows of a probe that exports biflows: the two directions of a flow of a
\* host with itself and the two directions of a flow between two hosts
BiflowPool ==
    << Row(1000, 1999, 6, HostA, HostA, 1, 2, 2, 3),
       Row(1500, 2499, 6, HostA, HostA, 2, 1, 1, 2),
       Row(1000, 1999, 6, HostA, HostB, 1, 2, 2, 3),
       Row(1500, 2499, 6, HostB, HostA, 2, 1, 1, 2) >>

ConstructBiflow ==
    \E flows_csv \in Selections(BiflowPool, MaxRows), stats \in StatsPool :
        Construct(flows_csv, stats, TRUE, TRUE)

\* construction with merge and biflow timestamp correction, and filtering
NextBiflow == ConstructBiflow \/ FilterAny \/ Release
SpecBiflow == Init /\ [][NextBiflow]_vars

\* the data types
InitNoModel ==
    /\ reference = [kind |-> "path", rows |-> <<>>]
    /\ args = NoArgs
    /\ constructed = "none"
    /\ _flows = NoFrame
    /\ _ref = NoFrame
    /\ _generator_stats = NoStats
    /\ _flows_ip_addresses_converted = FALSE
    /\ _ref_ip_addresses_converted = FALSE
    /\ filtered = NoFiltered
    /\ report = NoReport
    /\ metric = NoMetric
    /\ outcome = NoOutcome
    /\ verdict = NoVerdict
    /\ raised = NotRaised
    /\ replicator = NoReplicator
    /\ replicated = NoReplicated
    /\ _process = None
    /\ _last_run_stats = "None"
    /\ calls = <<>>

NextTypes ==
    \/ \E key \in SMMetricType, value \in Tolerances : NewMetric(key, value)
    \/ \E value \in Tolerances : SetDiff(value)
    \/ \E diff \in Diffs : NewOutcome(Whole(1), Whole(1), diff)
    \/ IsPassing
SpecTypes == InitNoModel /\ [][NextTypes]_vars

\* ---------------------------------------------- FlowReplicator: the inputs
AddConstant(n) == Text(<<"addConstant">>, <<n>>)
AddOffset(n) == Text(<<"addOffset">>, <<n>>)
NoLoopOnly == LoopOnly("absent", {})

\* the units a configuration may list: supported modifiers, addCounter, texts
\* that only begin like a supported modifier, and one without a number
UnitDicts ==
    << UnitDict(AddConstant(1), Absent, NoLoopOnly),
       UnitDict(Absent, AddOffset(Radix), LoopOnly("All", {})),
       UnitDict(NoneText, AddConstant(1), LoopOnly("int", {1})),
       UnitDict(Text(<<"addCounter">>, <<1, 1>>), Absent, NoLoopOnly),
       UnitDict(Text(<<"addCounter">>, <<1, 1>>), Absent, LoopOnly("int", {1})),
       UnitDict(Absent, Text(<<"addCounter">>, <<1, 1>>), LoopOnly("list", {0, 1})),
       UnitDict(Text(<<"addConstant", "Step">>, <<2>>), Absent, NoLoopOnly),
       UnitDict(Text(<<"addConstant">>, <<>>), Absent, LoopOnly("list", {1})),
       UnitDict(AddOffset(1), AddConstant(Radix), LoopOnly("list", {0, 1})),
       UnitDict(Absent, Absent, LoopOnly("list", {})) >>

LoopDicts ==
    { UnitDict(Absent, Absent, NoLoopOnly),
      UnitDict(AddOffset(1), Absent, NoLoopOnly),
      UnitDict(Absent, AddConstant(Radix), NoLoopOnly),
      UnitDict(Text(<<"addCounter">>, <<1, 1>>), Absent, NoLoopOnly),
      UnitDict(NoneText, Text(<<"addOffset", "Range">>, <<1, 2>>), NoLoopOnly) }

\* configurations: no unit or up to MaxUnits units, any loop object, and
\* sometimes a key that is not allowed
Configs ==
    {[keys |-> keys, units |-> units, loop |-> loop] :
        keys \in {{"units", "loop"}, {"units", "loop", "other"}},
        units \in Selections(UnitDicts, MaxUnits) \cup {<<>>},
        loop \in LoopDicts}

\* the units of the replications
ReplayUnits ==
    << UnitDict(Absent, Absent, NoLoopOnly),
       UnitDict(AddConstant(Radix), Absent, NoLoopOnly),
       UnitDict(NoneText, AddConstant(0), LoopOnly("All", {})),
       UnitDict(AddConstant(1), AddConstant(Radix + 1), LoopOnly("int", {1})) >>

\* the configurations of the replications: with and without a loop object
ReplayConfigs ==
    {[keys |-> {"units", "loop"}, units |-> units, loop |-> loop] :
        units \in Selections(ReplayUnits, MaxUnits),
        loop \in { UnitDict(Absent, Absent, NoLoopOnly),
                   UnitDict(AddOffset(Radix), AddOffset(1), NoLoopOnly) }}

\* flows of the replicated CSV: three of one flow key (the second one listed
\* first) and an IPv6 flow whose source is in the topmost group
ReplayPool ==
    << Row(2000, 2501, 6, HostA, HostB, 1, 2, 2, 3),
       Row(1000, 1500, 6, HostA, HostB, 1, 2, 1, 1),
       Row(4000, 4500, 6, HostA, HostB, 1, 2, 1, 2),
       Row(1200, 1301, 17, Str(6, Radix - 1, 2), Host6, 1, 2, 3, 4) >>

\* speed multipliers (powers of two: 1 / speed_multiplier is exact)
Speeds == {Whole(1), Whole(2), Num(1, 2)}

\* inactive timeouts, in seconds
Timeouts == {0 - 1, 0, 1}

\* construction of replicators
ConfigureAny ==
    \E config \in Configs, ignore_loops \in {{}, {1}, {0, 1}} :
        NewFlowReplicator(config, ignore_loops)

NextConfig == ConfigureAny \/ Dispose
SpecConfig == InitNoModel /\ [][NextConfig]_vars

ConfigureReplay ==
    \E config \in ReplayConfigs, ignore_loops \in {{}, {1}} :
        NewFlowReplicator(config, ignore_loops)

ReplicateUnmerged ==
    \E input_file \in Selections(ReplayPool, MaxRows), loops \in 1..MaxLoops,
       speed_multiplier \in Speeds :
        Replicate(input_file, loops, FALSE, 0 - 1, speed_multiplier)

ReplicateMerged ==
    \E input_file \in Selections(ReplayPool, MaxRows), loops \in 1..MaxLoops,
       speed_multiplier \in Speeds, inactive_timeout \in Timeouts :
        Replicate(input_file, loops, TRUE, inactive_timeout, speed_multiplier)

\* replication
NextReplay ==
    ConfigureReplay \/ ReplicateUnmerged \/ ReplicateMerged
    \/ ReleaseReplicated \/ Dispose
SpecReplay == InitNoModel /\ [][NextReplay]_vars

\* flows a few milliseconds long: a first flow, and flows that end with the
\* dataset
SpeedPool ==
    << Row(1000, 1001, 6, HostA, HostB, 1, 2, 1, 1),
       Row(1013, 1039, 6, HostA, HostB, 1, 2, 2, 3),
       Row(1013, 1026, 17, HostA, HostB, 1, 2, 1, 1),
       Row(1026, 1039, 6, HostB, HostA, 2, 1, 1, 2) >>

\* speed multipliers whose inverse is no float: 1.3, 2.6, 3, 1.5
FloatSpeeds == {Num(13, 10), Num(13, 5), Whole(3), Num(3, 2)}

ReplicateAtSpeed ==
    \E input_file \in Selections(SpeedPool, MaxRows), loops \in 1..MaxLoops,
       speed_multiplier \in FloatSpeeds :
        Replicate(input_file, loops, FALSE, 0 - 1, speed_multiplier)

\* replication at speeds that are not powers of two
NextSpeed ==
    ConfigureReplay \/ ReplicateAtSpeed \/ ReleaseReplicated \/ Dispose
SpecSpeed == InitNoModel /\ [][NextSpeed]_vars

\* return codes of an ipfixprobe process
ReturnCodes == {0, 1}

StartAny ==
    \E is_running \in BOOLEAN, return_code \in ReturnCodes, stop_raises \in BOOLEAN :
        start(is_running, return_code, stop_raises)

StopAny ==
    \E return_code \in ReturnCodes, stop_raises \in BOOLEAN :
        stop(return_code, stop_raises)

\* start() and stop() calls on a probe, in any order
NextProbe == StartAny \/ StopAny
SpecProbe == InitNoModel /\ [][NextProbe]_vars

\* ================================================================= claims

\* ---- C1 (SpecTypes)
\* the relative difference of o is a number not above the tolerance of its metric
C1WithinTolerance(o) ==
    /\ o.diff.t = "num"
    /\ o.diff.n * o.metric.diff.d <= o.metric.diff.n * o.diff.d

\* C1: is_passing() returns true exactly when the outcome's relative
\* difference is less than or equal to its metric's tolerance; an outcome
\* whose relative difference equals the tolerance passes.
C1_PassingIffWithinTolerance ==
    verdict.called => (verdict.passing <=> C1WithinTolerance(outcome))

\* is_passing was asked about an outcome whose difference equals a tolerance
\* above zero, and answered true
C1_BoundaryPasses ==
    /\ verdict.called
    /\ verdict.passing
    /\ outcome.diff = outcome.metric.diff
    /\ outcome.diff.n > 0

\* ---- C7 (SpecTypes)
C7InRange(value) == value.t = "num" /\ 0 <= value.n /\ value.n <= value.d

\* C7: constructing an SMMetric or assigning its diff with a tolerance
\* outside [0,1] raises an error and leaves no metric holding that value;
\* every tolerance in [0,1], 0 and 1 included, is accepted and held; every
\* existing metric has 0 <= diff <= 1.
C7_ToleranceInUnitInterval ==
    /\ metric # NoMetric => C7InRange(metric.diff)
    /\ raised.called =>
        /\ raised.error = "ValueError" <=> ~C7InRange(raised.value)
        /\ raised.error = "none" <=> C7InRange(raised.value)
        /\ raised.error = "none" => metric # NoMetric /\ metric.diff = raised.value
        /\ raised.error = "ValueError" => metric.diff # raised.value

\* an assignment above 1 was refused on a metric that holds the limit 1
C7_RefusedAboveOne ==
    /\ raised.called
    /\ raised.error = "ValueError"
    /\ raised.value = Num(5, 4)
    /\ metric # NoMetric
    /\ metric.diff = Whole(1)

\* ---- C2 (Spec)
\* the outcomes of the rules' metrics in a report
RuleOutcomes(outcomes) == {o \in Range(outcomes) : o.segment.type # "complement"}

\* |value - reference| / reference on the values as they are; reference # 0
C2ExactDiff(value, ref_value) ==
    Num(Abs(value.n * ref_value.d - ref_value.n * value.d), value.d * ref_value.n)

\* C2: for every outcome validate records for a rule metric (with a reference
\* other than zero), the relative difference equals |value - reference| /
\* reference on the actual value and reference, nothing cut off before the
\* subtraction.
C2_DiffOnActualValues ==
    report.status = "ok" =>
        \A o \in RuleOutcomes(report.outcomes) :
            o.reference.n # 0 => o.diff = C2ExactDiff(o.value, o.reference)

\* ---- C3 (Spec)
\* C3: when the reference of a rule metric is exactly zero, validate raises an
\* error: no report holds an outcome with a reference of zero.
C3_ZeroReferenceRaises ==
    report.status = "ok" =>
        \A o \in RuleOutcomes(report.outcomes) : o.reference.n # 0

\* ---- C4 (Spec)
C4Span(flows) ==
    SetMax({flows[i].END_TIME : i \in 1..Len(flows)})
    - SetMin({flows[i].START_TIME : i \in 1..Len(flows)}) + 1

C4StatsSpan(stats) == stats.end_time - stats.start_time + 1

\* the value the claim gives a metric over the filtered probe rows
C4Value(key, flows) ==
    CASE key = "FLOWS" -> Whole(Len(flows))
      [] key = "PACKETS" -> Whole(SeqSum(Column(flows, "PACKETS")))
      [] key = "BYTES" -> Whole(SeqSum(Column(flows, "BYTES")))
      [] key = "DURATION" -> Num(C4Span(flows), 1000)
      [] key = "PPS" -> Num(SeqSum(Column(flows, "PACKETS")) * 1000, C4Span(flows))
      \* bytes / (span / 1000) / 10^6
      [] OTHER -> Num(SeqSum(Column(flows, "BYTES")), C4Span(flows) * 1000)

\* the reference the claim gives a metric
C4Reference(key, ref, stats) ==
    CASE key = "FLOWS" -> Whole(Len(ref))
      [] key = "PACKETS" -> Whole(SeqSum(Column(ref, "PACKETS")))
      [] key = "BYTES" -> Whole(SeqSum(Column(ref, "BYTES")))
      [] key = "DURATION" -> Num(C4StatsSpan(stats), 1000)
      [] key = "PPS" -> Num(stats.packets * 1000, C4StatsSpan(stats))
      [] OTHER -> Num(stats.bytes, C4StatsSpan(stats) * 1000)

\* the place of the first outcome of rule i in the report, less one
C4Offset(rules, i) == SeqSum([k \in 1..(i - 1) |-> Len(rules[k].metrics)])

\* outcome o is the one of metric m over the filtered sides f
C4OutcomeIs(o, m, f) ==
    /\ o.metric = m
    /\ m.key \in {"DURATION", "PPS", "MBPS"} => f.flows # <<>>
    /\ o.value = C4Value(m.key, f.flows)
    /\ o.reference = C4Reference(m.key, f.ref, _generator_stats)

\* C4: for each rule, FLOWS is the row count and PACKETS / BYTES the column
\* sum of each filtered side; DURATION is (max end - min start + 1)/1000 of
\* the filtered probe rows against (stats.end - stats.start + 1)/1000; PPS and
\* MBPS are the filtered probe sums over that probe duration (bytes over 10^6)
\* against the generator's totals over the generator's duration; the rate and
\* duration references are the same for every segment.
C4_MetricFormulas ==
    report.status = "ok" =>
        /\ \A i \in 1..Len(report.rules) :
            \A j \in 1..Len(report.rules[i].metrics) :
                C4OutcomeIs(report.outcomes[C4Offset(report.rules, i) + j],
                            report.rules[i].metrics[j],
                            _filter_segment(Self, report.rules[i].segment))
        /\ \A o1, o2 \in RuleOutcomes(report.outcomes) :
            o1.metric.key = o2.metric.key
            /\ o1.metric.key \in {"DURATION", "PPS", "MBPS"}
            => o1.reference = o2.reference

\* two rules with different segments measured different durations and rates
\* against the same references, the packet rate not a whole number
C4_RatesOverTwoSegments ==
    /\ report.status = "ok"
    /\ Len(report.rules) = 2
    /\ report.rules[1].metrics = RateMetrics
    /\ report.rules[2].metrics = RateMetrics
    /\ report.rules[1].segment # report.rules[2].segment
    /\ report.outcomes[1].value # report.outcomes[4].value
    /\ report.outcomes[2].value # report.outcomes[5].value
    /\ report.outcomes[5].value.d # 1

\* ---- C5 (Spec)
\* the row test of a rule's segment
C5Covers(segment, r) ==
    CASE segment.type = "subnet" -> SubnetMask(r, segment)
      [] segment.type = "time" -> TimeMask(r, segment)
      [] OTHER -> TRUE

\* the probe rows no rule selects
C5Uncovered(rules) ==
    SelectSeq(_flows, LAMBDA r : \A i \in 1..Len(rules) : ~C5Covers(rules[i].segment, r))

C5OutcomeIs(o, key, rest) ==
    /\ o.segment.type = "complement"
    /\ o.metric = Metric(key, Whole(0))
    /\ o.reference = Whole(0)
    /\ o.value = Whole(SeqSum(Column(rest, key)))
    /\ is_passing(o) <=> SeqSum(Column(rest, key)) = 0

\* C5: with check_complement set and the rules (at least one) evaluated,
\* validate returns the rule outcomes followed by exactly two outcomes,
\* PACKETS and BYTES with tolerance 0 and reference 0, whose value is the sum
\* over the probe rows no rule selects; an outcome passes exactly when its
\* value is 0.
C5_ComplementOutcomes ==
    report.check_complement /\ report.rules # <<>>
    /\ report.status \in {"ok", "IndexingError"}
    => /\ report.status = "ok"
       /\ Len(report.outcomes) = C4Offset(report.rules, Len(report.rules) + 1) + 2
       /\ C5OutcomeIs(report.outcomes[Len(report.outcomes) - 1], "PACKETS",
                      C5Uncovered(report.rules))
       /\ C5OutcomeIs(report.outcomes[Len(report.outcomes)], "BYTES",
                      C5Uncovered(report.rules))

\* ---- C6 (Spec)
C6Faulty(rule) ==
    \E a, b \in 1..Len(rule.metrics) : a # b /\ rule.metrics[a].key = rule.metrics[b].key

\* C6: validate raises an error whenever some rule of the list holds two
\* metrics of the same kind, wherever the rule sits, and then returns no
\* report: no outcome of an earlier rule, and the faulty rule is not skipped.
C6_DuplicateMetricsRaise ==
    report.status # "none"
    /\ (\E i \in 1..Len(report.rules) : C6Faulty(report.rules[i]))
    => /\ report.status \in {"SMException", "ValueError"}
       /\ report.outcomes = <<>>

\* validate raised SMException for a list whose first rule is sound and
\* whose second rule holds a kind twice
C6_FaultyRuleSecond ==
    /\ report.status = "SMException"
    /\ Len(report.rules) = 2
    /\ ~C6Faulty(report.rules[1])
    /\ C6Faulty(report.rules[2])
    /\ report.outcomes = <<>>

\* ---- C8 (SpecFilter)
\* address object x lies in the subnet text net
C8In(x, net) ==
    /\ x.kind = "obj"
    /\ x.version = net.txt[1]
    /\ \E host \in 0..(Pow(Radix, 2 - net.prefixlen) - 1) :
        x.ip = net.txt[2] * Radix + net.txt[3] + host

\* the claim's rule for a segment with at least one subnet set
C8Selected(r, segment) ==
    IF segment.source # NoNet /\ segment.dest # NoNet
    THEN \/ C8In(r.SRC_IP, segment.source) /\ C8In(r.DST_IP, segment.dest)
         \/ /\ segment.bidir
            /\ C8In(r.SRC_IP, segment.dest) /\ C8In(r.DST_IP, segment.source)
    ELSE IF segment.source # NoNet
    THEN \/ C8In(r.SRC_IP, segment.source)
         \/ segment.bidir /\ C8In(r.DST_IP, segment.source)
    ELSE \/ C8In(r.DST_IP, segment.dest)
         \/ segment.bidir /\ C8In(r.SRC_IP, segment.dest)

C8Swapped(r) == [r EXCEPT !.SRC_IP = r.DST_IP, !.DST_IP = r.SRC_IP]

C8Subset(df, segment) == reset_index(SelectSeq(df, LAMBDA r : C8Selected(r, segment)))

\* C8: for a SubnetSegment with source, dest or both set, the filter selects
\* on either side exactly the records the rule of the claim names, and with
\* bidir set a record with src_ip and dst_ip exchanged is selected exactly
\* when the record is.
C8_SubnetSelection ==
    filtered.status # "none" /\ filtered.segment.type = "subnet"
    /\ (filtered.segment.source # NoNet \/ filtered.segment.dest # NoNet)
    => /\ filtered.status = "ok"
       /\ filtered.flows = C8Subset(_flows, filtered.segment)
       /\ filtered.ref = C8Subset(_ref, filtered.segment)
       /\ filtered.selected =
            {r.idx : r \in {x \in Range(_flows) : C8Selected(x, filtered.segment)}}
       /\ filtered.segment.bidir =>
            \A r \in Range(_flows) \cup Range(_ref) :
                SubnetMask(C8Swapped(r), filtered.segment)
                    <=> SubnetMask(r, filtered.segment)

\* a segment with bidir unset selected a probe record that it does not
\* select with src_ip and dst_ip exchanged
C8_SwapChangesOneWay ==
    /\ filtered.status = "ok"
    /\ filtered.segment.type = "subnet"
    /\ ~filtered.segment.bidir
    /\ \E r \in Range(_flows) :
        /\ r.idx \in filtered.selected
        /\ ~SubnetMask(C8Swapped(r), filtered.segment)

\* ---- C9 (SpecFilter)
\* the claim's rule: the bounds as the datetimes give them (microseconds)
C9Selected(r, segment) ==
    /\ segment.start # NoTime => r.START_TIME * 1000 >= segment.start
    /\ segment.end # NoTime => r.END_TIME * 1000 <= segment.end

C9Subset(df, segment) == reset_index(SelectSeq(df, LAMBDA r : C9Selected(r, segment)))

\* C9: for a TimeSegment with a bound set, the filter selects on either side
\* exactly the records with start_time >= start (when set) and end_time <=
\* end (when set).
C9_TimeSelection ==
    filtered.status = "ok" /\ filtered.segment.type = "time"
    => /\ filtered.flows = C9Subset(_flows, filtered.segment)
       /\ filtered.ref = C9Subset(_ref, filtered.segment)

\* ---- C10 (SpecFilter)
C10Duplicate(ref) ==
    \E i, j \in 1..Len(ref) :
        /\ i # j
        /\ ref[i].SRC_IP = ref[j].SRC_IP /\ ref[i].DST_IP = ref[j].DST_IP
        /\ ref[i].SRC_PORT = ref[j].SRC_PORT /\ ref[i].DST_PORT = ref[j].DST_PORT
        /\ ref[i].PROTOCOL = ref[j].PROTOCOL

\* the flow key of a row, its addresses as objects
C10Key(r) ==
    <<ip_address(r.SRC_IP), ip_address(r.DST_IP), r.SRC_PORT, r.DST_PORT, r.PROTOCOL>>

\* flows is a merge of the loaded rows: one row per flow key, counting them
C10Merged(flows, loaded) ==
    /\ ~C10Duplicate(flows)
    /\ {C10Key(r) : r \in Range(flows)} = {C10Key(r) : r \in Range(loaded)}
    /\ \A i \in 1..Len(flows) :
        flows[i].FLOW_COUNT =
            Cardinality({k \in 1..Len(loaded) : C10Key(loaded[k]) = C10Key(flows[i])})

\* C10: with merge requested, construction raises an error and leaves no
\* probe dataset when two reference records share a FlowKey, and carries the
\* merge out when the reference FlowKeys are pairwise distinct.
C10_MergeNeedsUniqueKeys ==
    constructed # "none" /\ args.merge
    => IF C10Duplicate(reference.rows)
       THEN constructed = "AssertionError" /\ _flows = NoFrame
       ELSE /\ constructed = "ok"
            /\ C10Merged(_flows, LoadFlows(args.flows, args.stats))

\* a construction with merge failed on a reference of two records
C10_DuplicateKeyRefused ==
    /\ args.merge
    /\ constructed = "AssertionError"
    /\ Len(reference.rows) = 2
    /\ _flows = NoFrame

\* ---- C11 (SpecFilter)
\* the rows of df with the flow key of r
C11Group(df, r) == SelectSeq(df, LAMBDA x : C10Key(x) = C10Key(r))

\* r is the merge of the loaded rows with its key
C11RowMerges(r, loaded) ==
    /\ C11Group(loaded, r) # <<>>
    /\ r.START_TIME = SetMin({x.START_TIME : x \in Range(C11Group(loaded, r))})
    /\ r.END_TIME = SetMax({x.END_TIME : x \in Range(C11Group(loaded, r))})
    /\ r.PACKETS = SeqSum(Column(C11Group(loaded, r), "PACKETS"))
    /\ r.BYTES = SeqSum(Column(C11Group(loaded, r), "BYTES"))
    /\ r.FLOW_COUNT = Len(C11Group(loaded, r))

\* flows holds exactly one record per flow key of loaded
C11OnePerKey(flows, loaded) ==
    /\ ~C10Duplicate(flows)
    /\ {C10Key(r) : r \in Range(flows)} = {C10Key(r) : r \in Range(loaded)}

\* r with flow_count 1 is a record of flows
C11Kept(r, flows) ==
    \E x \in Range(flows) :
        /\ C10Key(x) = C10Key(r)
        /\ x.START_TIME = r.START_TIME /\ x.END_TIME = r.END_TIME
        /\ x.PACKETS = r.PACKETS /\ x.BYTES = r.BYTES
        /\ x.FLOW_COUNT = 1

C11Holds(flows, loaded) ==
    /\ C11OnePerKey(flows, loaded)
    /\ \A r \in Range(flows) : C11RowMerges(r, loaded)
    /\ ~C10Duplicate(loaded) =>
        /\ Len(flows) = Len(loaded)
        /\ \A r \in Range(loaded) : C11Kept(r, flows)

\* C11: after a merge without timestamp correction the probe dataset holds
\* exactly one record per distinct FlowKey of the pre-merge probe records,
\* with the minimum start_time, the maximum end_time, the summed packets and
\* bytes and the number of the records of that key as flow_count; a dataset
\* with unique FlowKeys keeps its records, each with flow_count 1.
C11_MergeAggregates ==
    constructed = "ok" /\ args.merge /\ ~args.biflows_ts_correction
    => C11Holds(_flows, LoadFlows(args.flows, args.stats))

\* a plain merge joined two probe records of one key into one record
C11_TwoRecordsMerged ==
    /\ constructed = "ok"
    /\ args.merge /\ ~args.biflows_ts_correction
    /\ Len(LoadFlows(args.flows, args.stats)) = 2
    /\ Len(_flows) = 1
    /\ _flows[1].FLOW_COUNT = 2
    /\ _flows[1].END_TIME - _flows[1].START_TIME = 1999

\* ---- C12 (SpecFilter)
\* the flow key with the numerically smaller address (and its port) first
C12InvKey(r) ==
    IF ip_address(r.SRC_IP).ip > ip_address(r.DST_IP).ip
    THEN <<ip_address(r.DST_IP), ip_address(r.SRC_IP), r.DST_PORT, r.SRC_PORT, r.PROTOCOL>>
    ELSE <<ip_address(r.SRC_IP), ip_address(r.DST_IP), r.SRC_PORT, r.DST_PORT, r.PROTOCOL>>

C12Biflow(df, r) == SelectSeq(df, LAMBDA x : C12InvKey(x) = C12InvKey(r))

\* r carries the sums and the count of its key, and the times of its biflow
C12RowCorrected(r, loaded) ==
    /\ C11Group(loaded, r) # <<>>
    /\ r.PACKETS = SeqSum(Column(C11Group(loaded, r), "PACKETS"))
    /\ r.BYTES = SeqSum(Column(C11Group(loaded, r), "BYTES"))
    /\ r.FLOW_COUNT = Len(C11Group(loaded, r))
    /\ r.START_TIME = SetMin({x.START_TIME : x \in Range(C12Biflow(loaded, r))})
    /\ r.END_TIME = SetMax({x.END_TIME : x \in Range(C12Biflow(loaded, r))})

\* C12: with biflow timestamp correction, after the merge every probe
\* record's start_time and end_time are the minimum start_time and maximum
\* end_time over the merged records that share its direction-invariant key
\* and protocol; the records, their FlowKeys, packets, bytes and flow_counts
\* are those of the plain merge.
C12_BiflowTimestamps ==
    constructed = "ok" /\ args.merge /\ args.biflows_ts_correction
    => /\ C11OnePerKey(_flows, LoadFlows(args.flows, args.stats))
       /\ \A r \in Range(_flows) :
            C12RowCorrected(r, LoadFlows(args.flows, args.stats))

\* the two directions of a biflow, with different times at the probe, carry
\* the same corrected times
C12_BothDirectionsCorrected ==
    /\ constructed = "ok"
    /\ args.merge /\ args.biflows_ts_correction
    /\ Len(_flows) = 2
    /\ C10Key(_flows[1]) # C10Key(_flows[2])
    /\ _flows[1].START_TIME = 1000 /\ _flows[2].START_TIME = 1000
    /\ _flows[1].END_TIME = 2499 /\ _flows[2].END_TIME = 2499

\* ---- C19 (SpecFilter)
\* C19: constructing a StatisticalModel from a caller's in-memory reference
\* table leaves that table as it was handed over: its timestamps are not
\* shifted by the generator's start time.
C19_CallerTableUnchanged ==
    constructed # "none" /\ reference.kind = "frame"
    => reference.rows = args.reference

\* ---- C18 (Spec)
\* the outcomes of validate([rule]) on the model m
C18Alone(m, stats, rule) == Validation(m, stats, <<rule>>, FALSE).report.outcomes

\* the outcomes of rule i in the report are those the rule gives alone, on
\* the model before the call (before) and on the model after it (after)
C18RuleAsAlone(rep, i, before, after) ==
    \A j \in 1..Len(rep.rules[i].metrics) :
        /\ rep.outcomes[C4Offset(rep.rules, i) + j].metric = rep.rules[i].metrics[j]
        /\ rep.outcomes[C4Offset(rep.rules, i) + j].segment = rep.rules[i].segment
        /\ Len(before) = Len(rep.rules[i].metrics)
        /\ Len(after) = Len(rep.rules[i].metrics)
        /\ rep.outcomes[C4Offset(rep.rules, i) + j] = before[j]
        /\ rep.outcomes[C4Offset(rep.rules, i) + j] = after[j]

\* C18: validate records exactly one outcome per metric of every rule, in
\* rule order then metric order, and the outcome of a (rule, metric) is the
\* one the rule gives when it is validated alone, before and after the call:
\* it depends neither on the other rules of the list nor on their order nor
\* on earlier validate calls.
C18_RulesIndependent ==
    [][report'.status = "ok" =>
        /\ Len(report'.outcomes) =
                C4Offset(report'.rules, Len(report'.rules) + 1)
                + (IF report'.check_complement THEN 2 ELSE 0)
        /\ \A i \in 1..Len(report'.rules) :
            C18RuleAsAlone(report', i,
                           C18Alone(Self, _generator_stats, report'.rules[i]),
                           C18Alone(Self', _generator_stats', report'.rules[i]))]_vars

\* a report over two rules with overlapping segments, the same metrics and
\* different outcomes
C18_OverlappingRules ==
    /\ report.status = "ok"
    /\ Len(report.rules) = 2
    /\ report.rules[1].segment = NoSegment
    /\ report.rules[2].segment.type = "subnet"
    /\ report.rules[1].metrics = CountMetrics
    /\ report.rules[2].metrics = CountMetrics
    /\ report.outcomes[1].value # report.outcomes[4].value
    /\ _flows_ip_addresses_converted

\* ---------------------------------------------------------------------
\* C13: constructing a FlowReplicator fails when the loop object, or a unit
\* that is not restricted solely to ignored loops, carries a srcip/dstip
\* modifier other than addConstant(N) or addOffset(N); otherwise the object is
\* built, a unit restricted only to ignored loops is dropped whatever its
\* modifiers are, and every other modifier is parsed as the offset N.
C13NoModifier(text) == text = Absent \/ text = NoneText

C13Supported(text) ==
    /\ text.name \in {<<"addConstant">>, <<"addOffset">>}
    /\ Len(text.digits) = 1

C13Restriction(unit) ==
    IF unit.loopOnly.kind \in {"int", "list"} THEN unit.loopOnly.loops ELSE {}

C13Dropped(unit, ignore_loops) ==
    C13Restriction(unit) # {} /\ C13Restriction(unit) \subseteq ignore_loops

C13Kept(given, ignore_loops) ==
    SelectSeq(given.units, LAMBDA unit : ~C13Dropped(unit, ignore_loops))

C13Examined(given, ignore_loops) ==
    {given.loop.srcip, given.loop.dstip}
    \cup {unit.srcip : unit \in Range(C13Kept(given, ignore_loops))}
    \cup {unit.dstip : unit \in Range(C13Kept(given, ignore_loops))}

C13Offset(text) ==
    IF C13NoModifier(text) THEN NoModifier ELSE IpAddConstant(text.digits[1])

C13Parsed(kept, config) ==
    /\ Len(config.units) = Len(kept)
    /\ \A i \in 1..Len(kept) :
        /\ config.units[i].srcip = C13Offset(kept[i].srcip)
        /\ config.units[i].dstip = C13Offset(kept[i].dstip)
        /\ config.units[i].loop_only = C13Restriction(kept[i])

C13_ModifiersChecked ==
    replicator.status # "none" /\ replicator.given.keys \subseteq {"units", "loop"} =>
        IF \A text \in C13Examined(replicator.given, replicator._ignore_loops) :
                C13NoModifier(text) \/ C13Supported(text)
        THEN /\ replicator.status = "ok"
             /\ C13Parsed(C13Kept(replicator.given, replicator._ignore_loops),
                          replicator._config)
             /\ replicator._config.loop.srcip = C13Offset(replicator.given.loop.srcip)
             /\ replicator._config.loop.dstip = C13Offset(replicator.given.loop.dstip)
        ELSE replicator.status # "ok"

\* ---------------------------------------------------------------------
\* C16: adding an offset k >= 0 to an address gives, for IPv4, the address of
\* value (a + k) mod the size of the address space and, for IPv6, the address
\* of value (a + k * weight of the top group) mod the size of the address
\* space: the low groups of an IPv6 address are unchanged, and an addition
\* past the top of the address space wraps around.
C16Sum(a, k) ==
    IF a.version = 6
    THEN Obj(6, (a.ip + k * TopGroup) % AddressSpace)
    ELSE Obj(4, (a.ip + k) % AddressSpace)

\* the rows of the unmerged result before the offsets were added
C16Before(rep) == Concat([n \in 1..Len(rep.unmerged) |-> rep.unmerged[n].flows])

C16Added(row, before) ==
    /\ before._SRC_IP_OFFSET >= 0 /\ before._DST_IP_OFFSET >= 0
    /\ row.SRC_IP = C16Sum(before.SRC_IP, before._SRC_IP_OFFSET)
    /\ row.DST_IP = C16Sum(before.DST_IP, before._DST_IP_OFFSET)
    /\ row.SRC_IP.version = 6 => row.SRC_IP.ip % TopGroup = before.SRC_IP.ip % TopGroup
    /\ row.DST_IP.version = 6 => row.DST_IP.ip % TopGroup = before.DST_IP.ip % TopGroup

C16_AdditionWraps ==
    replicated.status = "ok" /\ ~replicated.args.merge_across_loops =>
        /\ Len(replicated.rows) = Len(C16Before(replicated))
        /\ \A i \in 1..Len(replicated.rows) :
              C16Added(replicated.rows[i], C16Before(replicated)[i])

\* an IPv6 and an IPv4 source address were both carried past the top of the
\* address space
C16Wrapped(rep, version) ==
    \E i \in 1..Len(rep.rows) :
        /\ C16Before(rep)[i].SRC_IP.version = version
        /\ C16Before(rep)[i]._SRC_IP_OFFSET > 0
        /\ C16Before(rep)[i].SRC_IP.ip
             + C16Before(rep)[i]._SRC_IP_OFFSET * (IF version = 6 THEN TopGroup ELSE 1)
           >= AddressSpace
        /\ rep.rows[i].SRC_IP.ip < C16Before(rep)[i].SRC_IP.ip

C16_TopOfSpacePassed ==
    /\ replicated.status = "ok" /\ ~replicated.args.merge_across_loops
    /\ C16Wrapped(replicated, 6)
    /\ C16Wrapped(replicated, 4)

\* ---------------------------------------------------------------------
\* C14: in the unmerged result the record of input row r in loop n starts at
\* loopStart + n * loopLength + floor((r.start - loopStart) * timeMultiplier)
\* and ends floor((r.end - r.start) * timeMultiplier) later, with loopLength =
\* floor((loopEnd - loopStart) * timeMultiplier) and timeMultiplier = 1 /
\* speedMultiplier; ignored loops give no records and do not move the later
\* loops; with speed 1, loop 0 has the input's timestamps.
C14Floor(x, speed) == (x * speed.d) \div speed.n

C14LoopStart(input) == SetMin({input[i].START_TIME : i \in 1..Len(input)})
C14LoopEnd(input) == SetMax({input[i].END_TIME : i \in 1..Len(input)})
C14LoopLength(input, speed) == C14Floor(C14LoopEnd(input) - C14LoopStart(input), speed)

\* the loop each row of the unmerged result was made for
C14LoopOf(rep) ==
    Concat([n \in 1..Len(rep.unmerged) |->
              [j \in 1..Len(rep.unmerged[n].flows) |-> rep.unmerged[n].loop_n]])

C14Start(r, n, input, speed) ==
    C14LoopStart(input) + n * C14LoopLength(input, speed)
    + C14Floor(r.START_TIME - C14LoopStart(input), speed)

C14RowTimed(row, r, n, input, speed) ==
    /\ row.START_TIME = C14Start(r, n, input, speed)
    /\ row.END_TIME = row.START_TIME + C14Floor(r.END_TIME - r.START_TIME, speed)
    /\ (speed = Whole(1) /\ n = 0) =>
            row.START_TIME = r.START_TIME /\ row.END_TIME = r.END_TIME

C14Holds(rep, self) ==
    /\ {rep.unmerged[n].loop_n : n \in 1..Len(rep.unmerged)}
         = (0..(rep.args.loops - 1)) \ self._ignore_loops
    /\ Len(C14LoopOf(rep)) = Len(rep.rows)
    /\ \A i \in 1..Len(rep.rows) :
          C14RowTimed(rep.rows[i], rep.args.input_file[C16Before(rep)[i].ORIG_INDEX + 1],
                      C14LoopOf(rep)[i], rep.args.input_file, rep.args.speed_multiplier)
    /\ \A n \in 1..Len(rep.unmerged) :
          {rep.unmerged[n].flows[j].ORIG_INDEX : j \in 1..Len(rep.unmerged[n].flows)}
            = 0..(Len(rep.args.input_file) - 1)

C15Value(text) == IF C13NoModifier(text) THEN 0 ELSE text.digits[1]

C15Active(given, n) ==
    {u \in 1..Len(given.units) :
        C13Restriction(given.units[u]) = {} \/ n \in C13Restriction(given.units[u])}

\* (input row, source offset, destination offset) of the candidates of loop n
C15Candidates(given, n, input) ==
    {<<r - 1,
       n * C15Value(given.loop.srcip) + C15Value(given.units[u].srcip),
       n * C15Value(given.loop.dstip) + C15Value(given.units[u].dstip)>> :
        r \in 1..Len(input), u \in C15Active(given, n)}

C15FrameOffsets(frame, given, input) ==
    {<<frame.flows[j].ORIG_INDEX, frame.flows[j]._SRC_IP_OFFSET,
       frame.flows[j]._DST_IP_OFFSET>> : j \in 1..Len(frame.flows)}
      = C15Candidates(given, frame.loop_n, input)

C15RowMoved(row, before, r) ==
    /\ row.SRC_IP = C16Sum(ip_address(r.SRC_IP), before._SRC_IP_OFFSET)
    /\ row.DST_IP = C16Sum(ip_address(r.DST_IP), before._DST_IP_OFFSET)
    /\ (before._SRC_IP_OFFSET = 0 /\ before._DST_IP_OFFSET = 0) =>
            row.SRC_IP = ip_address(r.SRC_IP) /\ row.DST_IP = ip_address(r.DST_IP)

C15_UnitAndLoopOffsets ==
    replicated.status = "ok" /\ ~replicated.args.merge_across_loops =>
        /\ \A n \in 1..Len(replicated.unmerged) :
              C15FrameOffsets(replicated.unmerged[n], replicator.given,
                              replicated.args.input_file)
        /\ \A i \in 1..Len(replicated.rows) :
              C15RowMoved(replicated.rows[i], C16Before(replicated)[i],
                  replicated.args.input_file[C16Before(replicated)[i].ORIG_INDEX + 1])

\* a unit and a loop object that both add one top group to the source: the
\* host of group 1 is in group 2 in loop 0 and in group 3 in loop 1
C15_OneGroupPerLoop ==
    /\ replicated.status = "ok" /\ ~replicated.args.merge_across_loops
    /\ replicator.given.units = <<UnitDict(AddConstant(Radix), Absent, NoLoopOnly)>>
    /\ replicator.given.loop.srcip = AddOffset(Radix)
    /\ replicated.args.input_file[1].SRC_IP = HostA
    /\ \E i, j \in 1..Len(replicated.rows) :
          /\ C14LoopOf(replicated)[i] = 0
          /\ replicated.rows[i].SRC_IP = ip_address(Str(4, 2, 1))
          /\ C14LoopOf(replicated)[j] = 1
          /\ replicated.rows[j].SRC_IP = ip_address(Str(4, 3, 1))

\* ---------------------------------------------------------------------
\* C20: within one loop the candidates of different units that come from the
\* same input row with equal source and destination offsets are one output
\* record, carrying the sum of their packets and bytes and the row's
\* timestamps for that loop; candidates that differ in the input row or in an
\* offset are separate records, so two input rows with one flow key are never
\* merged within a loop.
C20Units(given, n, q) ==
    {u \in C15Active(given, n) :
        /\ n * C15Value(given.loop.srcip) + C15Value(given.units[u].srcip)
             = q._SRC_IP_OFFSET
        /\ n * C15Value(given.loop.dstip) + C15Value(given.units[u].dstip)
             = q._DST_IP_OFFSET}

C20Record(row, q, r, n, given, input, speed) ==
    /\ C20Units(given, n, q) # {}
    /\ row.PACKETS = Cardinality(C20Units(given, n, q)) * r.PACKETS
    /\ row.BYTES = Cardinality(C20Units(given, n, q)) * r.BYTES
    /\ row.START_TIME = C14Start(r, n, input, speed)
    /\ row.END_TIME = row.START_TIME + C14Floor(r.END_TIME - r.START_TIME, speed)

C20Holds(rep, given) ==
    /\ \A n \in 1..Len(rep.unmerged) :
          /\ Len(rep.unmerged[n].flows)
               = Cardinality(C15Candidates(given, rep.unmerged[n].loop_n,
                                           rep.args.input_file))
          /\ C15FrameOffsets(rep.unmerged[n], given, rep.args.input_file)
    /\ Len(rep.rows) = Len(C16Before(rep))
    /\ \A i \in 1..Len(rep.rows) :
          C20Record(rep.rows[i], C16Before(rep)[i],
                    rep.args.input_file[C16Before(rep)[i].ORIG_INDEX + 1],
                    C14LoopOf(rep)[i], given, rep.args.input_file,
                    rep.args.speed_multiplier)

C20_CandidatesMergedPerRow ==
    replicated.status = "ok" /\ ~replicated.args.merge_across_loops =>
        C20Holds(replicated, replicator.given)

\* two units with equal offsets and two input rows with one flow key, one
\* loop: two records, each with the doubled counters of its row
C20_TwoUnitsTwoRows ==
    /\ replicated.status = "ok" /\ ~replicated.args.merge_across_loops
    /\ replicated.args.loops = 1
    /\ Len(replicator._config.units) = 2
    /\ Len(replicated.args.input_file) = 2
    /\ FlowKey(replicated.args.input_file[1]) = FlowKey(replicated.args.input_file[2])
    /\ Len(replicated.rows) = 2
    /\ replicated.rows[1].PACKETS = 2 * replicated.args.input_file[1].PACKETS
    /\ replicated.rows[2].PACKETS = 2 * replicated.args.input_file[2].PACKETS

\* ---------------------------------------------------------------------
\* C17: with merging across loops and an inactive timeout T (milliseconds),
\* consecutive records of one flow key are in the same merged record exactly
\* when the later one starts less than T after the earlier one ends, and are
\* cut apart when that gap is T or more; a merged record has the minimum
\* start, the maximum end and the summed packets and bytes of its sub-group.
C17Key(r) == <<r.PROTOCOL, r.SRC_IP, r.DST_IP, r.SRC_PORT, r.DST_PORT>>

\* the replicated records before the merge across loops, addresses moved
C17Records(rep) ==
    [i \in 1..Len(C16Before(rep)) |->
        [C16Before(rep)[i] EXCEPT
            !.SRC_IP = C16Sum(@, C16Before(rep)[i]._SRC_IP_OFFSET),
            !.DST_IP = C16Sum(@, C16Before(rep)[i]._DST_IP_OFFSET)]]

C17Group(records, k) == SelectSeq(records, LAMBDA r : C17Key(r) = k)

\* the number of cuts before record i of a group
C17Cuts(g, i, T) ==
    Cardinality({j \in 1..(i - 1) : g[j + 1].START_TIME - g[j].END_TIME >= T})

C17SubGroup(g, a, T) ==
    LET members == SelectSeq([i \in 1..Len(g) |-> i], LAMBDA i : C17Cuts(g, i, T) = a)
    IN  [m \in 1..Len(members) |-> g[members[m]]]

C17Summary(sub) ==
    <<C17Key(sub[1]),
      SetMin({sub[m].START_TIME : m \in 1..Len(sub)}),
      SetMax({sub[m].END_TIME : m \in 1..Len(sub)}),
      SeqSum([m \in 1..Len(sub) |-> sub[m].PACKETS]),
      SeqSum([m \in 1..Len(sub) |-> sub[m].BYTES])>>

C17SubGroups(records, T) ==
    UNION {{<<k, a>> : a \in 0..C17Cuts(C17Group(records, k),
                                        Len(C17Group(records, k)), T)} :
            k \in {C17Key(r) : r \in Range(records)}}

C17Expected(records, T) ==
    {C17Summary(C17SubGroup(C17Group(records, s[1]), s[2], T)) :
        s \in C17SubGroups(records, T)}

C17Holds(rows, records, T) ==
    /\ Len(rows) = Cardinality(C17SubGroups(records, T))
    /\ {<<C17Key(rows[i]), rows[i].START_TIME, rows[i].END_TIME,
          rows[i].PACKETS, rows[i].BYTES>> : i \in 1..Len(rows)}
         = C17Expected(records, T)

C17_MergedBelowTimeout ==
    (/\ replicated.status = "ok"
     /\ replicated.args.merge_across_loops
     /\ replicated.args.inactive_timeout >= 0) =>
        C17Holds(replicated.rows, C17Records(replicated),
                 1000 * replicated.args.inactive_timeout)

\* ---------------------------------------------------------------------
\* C21: whenever an inactive timeout >= 0 is configured, the value 0 included,
\* the merge across loops cuts the records of a flow key at every gap that
\* reaches the timeout (with the timeout 0, records separated by any gap >= 0
\* stay separate); the records of a flow key are one sub-group only when no
\* timeout is configured (-1).
C21Keys(records) == {C17Key(r) : r \in Range(records)}

C21RecordsOf(rows, k) == Cardinality({i \in 1..Len(rows) : C17Key(rows[i]) = k})

C21Cut(rows, records, inactive_timeout) ==
    \A k \in C21Keys(records) :
        C21RecordsOf(rows, k) =
            IF inactive_timeout = 0 - 1 THEN 1
            ELSE 1 + C17Cuts(C17Group(records, k), Len(C17Group(records, k)),
                             1000 * inactive_timeout)

C21_EveryTimeoutCuts ==
    replicated.status = "ok" /\ replicated.args.merge_across_loops =>
        C21Cut(replicated.rows, C17Records(replicated),
               replicated.args.inactive_timeout)

\* ---------------------------------------------------------------------
\* C22: the merge across loops takes every gap between a record and its
\* predecessor in start_time order within the flow key group, whatever order
\* the records have in the replicated dataset.
RECURSIVE C22Sorted(_)
C22Sorted(records) ==
    IF records = <<>> THEN <<>>
    ELSE LET first == CHOOSE i \in 1..Len(records) :
                        \A j \in 1..Len(records) :
                            \/ records[i].START_TIME < records[j].START_TIME
                            \/ records[i].START_TIME = records[j].START_TIME /\ i <= j
         IN  <<records[first]>>
             \o C22Sorted(SubSeq(records, 1, first - 1)
                          \o SubSeq(records, first + 1, Len(records)))

C22_GapsInStartOrder ==
    (/\ replicated.status = "ok"
     /\ replicated.args.merge_across_loops
     /\ replicated.args.inactive_timeout > 0) =>
        C17Holds(replicated.rows, C22Sorted(C17Records(replicated)),
                 1000 * replicated.args.inactive_timeout)

\* ---------------------------------------------------------------------
\* C26: the total packets, and the total bytes, of the replication result are
\* the input's total times the number of (loop, unit) pairs with the loop
\* below loops and not ignored and the unit active in that loop, without and
\* with merging across loops.
C26Pairs(given, loops, ignore_loops) ==
    UNION {{<<n, u>> : u \in C15Active(given, n)} :
            n \in (0..(loops - 1)) \ ignore_loops}

C26Total(rows, c) == SeqSum([i \in 1..Len(rows) |-> rows[i][c]])

C26_CountersPreserved ==
    replicated.status = "ok" =>
        /\ C26Total(replicated.rows, "PACKETS") =
              C26Total(replicated.args.input_file, "PACKETS")
              * Cardinality(C26Pairs(replicator.given, replicated.args.loops,
                                     replicator._ignore_loops))
        /\ C26Total(replicated.rows, "BYTES") =
              C26Total(replicated.args.input_file, "BYTES")
              * Cardinality(C26Pairs(replicator.given, replicated.args.loops,
                                     replicator._ignore_loops))

\* both merges took place: two units with equal offsets in each of two or
\* more loops, and the loops' records merged into fewer records
C26_BothMergesDone ==
    /\ replicated.status = "ok"
    /\ replicated.args.merge_across_loops
    /\ replicated.args.loops >= 2
    /\ Len(C16Before(replicated)) < Len(replicated.args.input_file)
         * Cardinality(C26Pairs(replicator.given, replicated.args.loops,
                                replicator._ignore_loops))
    /\ Len(replicated.rows) < Len(C16Before(replicated))

\* ---------------------------------------------------------------------
\* C27: for any speed multiplier, every record of the unmerged result made
\* for loop n starts at or after loopStart + n * loopLength, ends at or after
\* its start and at or before loopStart + (n + 1) * loopLength, so records of
\* different loops never overlap. loopLength is read both ways: as the exact
\* floor of (loopEnd - loopStart) / speedMultiplier and as the float product
\* the replicator computes; the claim holds if either reading bounds every
\* record.
C27Within(rep, loopLength) ==
    \A i \in 1..Len(rep.rows) :
        LET n == C14LoopOf(rep)[i]
            loopStart == C14LoopStart(rep.args.input_file)
        IN  /\ loopStart + n * loopLength <= rep.rows[i].START_TIME
            /\ rep.rows[i].START_TIME <= rep.rows[i].END_TIME
            /\ rep.rows[i].END_TIME <= loopStart + (n + 1) * loopLength

C27LoopLengths(rep) ==
    { C14LoopLength(rep.args.input_file, rep.args.speed_multiplier),
      Truncated(C14LoopEnd(rep.args.input_file) - C14LoopStart(rep.args.input_file),
                TimeMultiplier(rep.args.speed_multiplier)) }

C27_RecordsWithinLoop ==
    replicated.status = "ok" /\ ~replicated.args.merge_across_loops =>
        \E loopLength \in C27LoopLengths(replicated) : C27Within(replicated, loopLength)

\* at speed 1.3 a record of loop 0 ends after a record of loop 1 has started
C27_LoopsOverlap ==
    /\ replicated.status = "ok" /\ ~replicated.args.merge_across_loops
    /\ replicated.args.speed_multiplier = Num(13, 10)
    /\ \E i, j \in 1..Len(replicated.rows) :
          /\ C14LoopOf(replicated)[i] = 0
          /\ C14LoopOf(replicated)[j] = 1
          /\ replicated.rows[i].END_TIME > replicated.rows[j].START_TIME

\* ---------------------------------------------------------------------
\* C28: the less-than ordering of the replicator's address values is a strict
\* total order consistent with equality: for any two addresses a and b of a
\* replication result exactly one of a < b, b < a and a = b holds, also when
\* one is an IPv4 and the other an IPv6 address.
C28Addresses(rows) ==
    {rows[i].SRC_IP : i \in 1..Len(rows)} \cup {rows[i].DST_IP : i \in 1..Len(rows)}

C28ExactlyOne(a, b) ==
    Cardinality({c \in {"lt", "gt", "eq"} :
                    \/ c = "lt" /\ __lt__(a, b)
                    \/ c = "gt" /\ __lt__(b, a)
                    \/ c = "eq" /\ a = b}) = 1

C28_TotalOrder ==
    replicated.status = "ok" =>
        \A a, b \in C28Addresses(replicated.rows) : C28ExactlyOne(a, b)

\* an IPv4 and an IPv6 address with the same integer in one result: they are
\* not equal and neither is less than the other
C28_SameIntegerTwoVersions ==
    /\ replicated.status = "ok"
    /\ \E a, b \in C28Addresses(replicated.rows) :
          /\ a.version = 4 /\ b.version = 6 /\ a.ip = b.ip
          /\ ~__lt__(a, b) /\ ~__lt__(b, a) /\ a # b

\* ---------------------------------------------------------------------
\* C29: replicate completes for every accepted configuration and every
\* loops >= 1: a non-ignored loop in which no unit is active contributes zero
\* records instead of making the replication fail, and the records of the
\* other loops are still produced.
C29LoopsWithUnits(rep, self) ==
    {n \in (0..(rep.args.loops - 1)) \ self._ignore_loops :
        C15Active(self.given, n) # {}}

C29_ReplicateCompletes ==
    (replicator.status = "ok" /\ replicated.status # "none") =>
        /\ replicated.status = "ok"
        /\ {replicated.unmerged[f].loop_n :
                f \in {g \in 1..Len(replicated.unmerged) :
                          replicated.unmerged[g].flows # <<>>}}
             = C29LoopsWithUnits(replicated, replicator)

\* two loops, the only unit restricted to loop 1: loop 0 has no active unit
\* and replicate raises
C29_LoopWithoutUnitRaises ==
    /\ replicator.status = "ok" /\ replicated.status = "ValueError"
    /\ replicated.args.loops = 2
    /\ replicator._ignore_loops = {}
    /\ C15Active(replicator.given, 0) = {}
    /\ C15Active(replicator.given, 1) # {}

\* ---------------------------------------------------------------------
\* C23: an SMSubnetSegment with neither source nor dest set, and an
\* SMTimeSegment with neither start nor end set, behave like no segment:
\* filtering by them is not an error and selects every row of both datasets.
C23Unset(segment) ==
    \/ segment.type = "subnet" /\ segment.source = NoNet /\ segment.dest = NoNet
    \/ segment.type = "time" /\ segment.start = NoTime /\ segment.end = NoTime

C23_UnsetSegmentSelectsAll ==
    (filtered # NoFiltered /\ C23Unset(filtered.segment)) =>
        /\ filtered.status = "ok"
        /\ Len(filtered.flows) = Len(_flows)
        /\ Len(filtered.ref) = Len(_ref)

\* a time segment without bounds was used on a model with probe rows, and the
\* filter raised
C23_UnsetTimeSegmentRaises ==
    /\ filtered # NoFiltered
    /\ filtered.segment = SMTimeSegment(NoTime, NoTime)
    /\ Len(_flows) > 0
    /\ filtered.status = "TypeError"

\* ---------------------------------------------------------------------
\* C24: for a rule with no segment the filter returns both datasets unchanged
\* and a mask holding one true entry for every probe row, keyed to the same
\* row identities as the probe dataset, also after rows were dropped at load
\* time (multicast exclusion, flows starting before the generator start
\* time); this is what lets validate with check_complement complete over a
\* rule list with a no-segment rule.
C24_NoSegmentMaskKeyedAsFlows ==
    (filtered # NoFiltered /\ filtered.segment = NoSegment) =>
        /\ filtered.status = "ok"
        /\ filtered.flows = _flows
        /\ filtered.ref = _ref
        /\ filtered.labels = Labels(_flows)
        /\ filtered.selected = filtered.labels

\* the probe frame lost a row when it was loaded, and the mask of the filter
\* without a segment is keyed by a label the frame does not have
C24_MaskKeyedByMissingLabel ==
    /\ filtered # NoFiltered /\ filtered.segment = NoSegment
    /\ filtered.status = "ok"
    /\ Len(_flows) < Len(args.flows)
    /\ \E label \in filtered.labels : label \notin Labels(_flows)

\* ---------------------------------------------------------------------
\* C25: with biflow timestamp correction, a merged probe record and its
\* reverse-direction record (same protocol, source and destination address
\* exchanged, source and destination port exchanged) fall into the same
\* direction-invariant group and end with the same start_time and end_time,
\* also when src_ip equals dst_ip and only the ports differ.
C25Reverse(r, q) ==
    /\ q.PROTOCOL = r.PROTOCOL
    /\ q.SRC_IP = r.DST_IP /\ q.DST_IP = r.SRC_IP
    /\ q.SRC_PORT = r.DST_PORT /\ q.DST_PORT = r.SRC_PORT

C25_ReverseRecordsAligned ==
    (constructed = "ok" /\ args.merge /\ args.biflows_ts_correction) =>
        \A r, q \in Range(_flows) :
            C25Reverse(r, q) =>
                /\ ~_flows_ip_addresses_converted => InvKey(r) = InvKey(q)
                /\ r.START_TIME = q.START_TIME
                /\ r.END_TIME = q.END_TIME

\* the two directions of a flow of a host with itself keep different times
C25_SelfFlowNotAligned ==
    /\ constructed = "ok" /\ args.merge /\ args.biflows_ts_correction
    /\ \E r, q \in Range(_flows) :
          /\ C25Reverse(r, q)
          /\ r.SRC_IP = r.DST_IP /\ r.SRC_PORT # r.DST_PORT
          /\ r.END_TIME # q.END_TIME

\* ---------------------------------------------------------------------
\* C30: for any sequence of start() and stop() calls on an Ipfixprobe: a
\* stop() with no running process has no effect; a stop() that finds the
\* process exited with a non-zero return code raises ProbeException; after
\* any stop() on a started probe, whether it returned or raised, the probe
\* holds no process handle, so that a following stop() has no effect; and
\* last_run_stats is non-None only when the most recent run was stopped
\* successfully.
C30StopWithoutProcess(call) ==
    (call.name = "stop" /\ ~call.before._process.daemon) =>
        /\ call.result = "returned"
        /\ _process = call.before._process
        /\ _last_run_stats = call.before._last_run_stats

C30NonZeroRaises(call) ==
    (call.name = "stop" /\ call.before._process.daemon /\ call.returncode # 0) =>
        call.result = "ProbeException"

C30NoHandleAfterStop(call) ==
    call.name = "stop" => _process = None

C30StatsOnlyAfterStoppedRun ==
    _last_run_stats # "None" =>
        \E i \in 1..Len(calls) :
            /\ calls[i].name = "stop" /\ calls[i].before._process.daemon
            /\ calls[i].result = "returned"
            /\ \A j \in (i + 1)..Len(calls) : calls[j].name = "stop"

C30_StopLeavesNoHandle ==
    /\ calls # <<>> =>
          /\ C30StopWithoutProcess(calls[Len(calls)])
          /\ C30NonZeroRaises(calls[Len(calls)])
          /\ C30NoHandleAfterStop(calls[Len(calls)])
    /\ C30StatsOnlyAfterStoppedRun

\* a stop() raised ProbeException and the stop() after it raised again
C30_SecondStopRaises ==
    /\ Len(calls) >= 3
    /\ calls[Len(calls) - 2].name = "start" /\ calls[Len(calls) - 2].result = "returned"
    /\ calls[Len(calls) - 1].name = "stop" /\ calls[Len(calls) - 1].result = "ProbeException"
    /\ calls[Len(calls)].name = "stop" /\ calls[Len(calls)].result = "ProbeException"
    /\ _process # None

=============================================================================
